---- MODULE Spec2Model ----
(***************************************************************************)
(* KnowledgeGraph (src/src/components/knowledge_graph.py): the in-memory   *)
(* store kg_data and its query operations.  Text is a sequence of          *)
(* one-character strings, so that lower(), substring containment and       *)
(* split() are computed as Python computes them.                           *)
(***************************************************************************)
EXTENDS Integers, Sequences, FiniteSets, TLC

VARIABLES kg_data, hash_seed, op, arg, ret, source, raised, prev,
          callers, locals, conversation_history, pipe,
          nlp, completed, insights, web, voice, analytics

vars == <<kg_data, hash_seed, op, arg, ret, source, raised, prev,
          callers, locals, conversation_history, pipe,
          nlp, completed, insights, web, voice, analytics>>

(***************************************************************************)
(* Bounds of the model.                                                    *)
(***************************************************************************)
MaxStrLen == 2
MaxEntities == 2
MaxLeaves == 11
\* the deepest nesting of get_session_insights the interpreter's recursion
\* limit allows (sys.getrecursionlimit() frames, two frames per level)
RecursionLimit == 3

\* the number of track_interaction / track_voice_interaction calls made
MaxInteractions == 3

\* the number of /api/chat requests in flight
MaxRequests == 2

RequestIds == 1..MaxRequests

\* the number of recording threads ever created
MaxThreads == 2

ThreadIds == 1..MaxThreads

\* the number of audio chunks kept in audio_frames
MaxFrames == 2

\* the threads that call start_recording and stop_recording
VoiceCallers == {"v1", "v2"}

(***************************************************************************)
(* Python text primitives.                                                 *)
(***************************************************************************)
UpperChars == <<"A","B","C","D","E","F","G","H","I","J","K","L","M",
                "N","O","P","Q","R","S","T","U","V","W","X","Y","Z">>

LowerChars == <<"a","b","c","d","e","f","g","h","i","j","k","l","m",
                "n","o","p","q","r","s","t","u","v","w","x","y","z">>

WhitespaceChars == {" ", "\t", "\n"}

LowerTable ==
    [i \in 1..26 |-> UpperChars[i] :> LowerChars[i]]

RECURSIVE MergeFrom(_, _)
MergeFrom(tables, i) ==
    IF i > Len(tables) THEN << >> ELSE tables[i] @@ MergeFrom(tables, i + 1)

\* the lower-case letter of every upper-case letter
LowerOf == MergeFrom(LowerTable, 1)

UpperSet == DOMAIN LowerOf

\* str.lower() on one character
LowerChar(c) == IF c \in UpperSet THEN LowerOf[c] ELSE c

\* str.lower()
Lower(s) == [i \in 1..Len(s) |-> LowerChar(s[i])]

\* as if the empty string were a substring of nothing
ContainsNonEmpty(sub, s) ==
    /\ sub # <<>>
    /\ \E i \in 0..(Len(s) - Len(sub)) : SubSeq(s, i + 1, i + Len(sub)) = sub

\* Python's `sub in s` on str
Contains(sub, s) ==
    \E i \in 0..(Len(s) - Len(sub)) : SubSeq(s, i + 1, i + Len(sub)) = sub

RECURSIVE SplitFrom(_, _, _)
SplitFrom(s, i, cur) ==
    IF i > Len(s)
    THEN IF cur = <<>> THEN <<>> ELSE <<cur>>
    ELSE IF s[i] \in WhitespaceChars
         THEN IF cur = <<>>
              THEN SplitFrom(s, i + 1, <<>>)
              ELSE <<cur>> \o SplitFrom(s, i + 1, <<>>)
         ELSE SplitFrom(s, i + 1, Append(cur, s[i]))

\* str.split() with no argument: the maximal runs of non-whitespace
Split(s) == SplitFrom(s, 1, <<>>)

RECURSIVE JoinSp(_)
\* " ".join(parts)
JoinSp(parts) ==
    IF parts = <<>> THEN <<>>
    ELSE IF Len(parts) = 1 THEN parts[1]
    ELSE parts[1] \o <<" ">> \o JoinSp(Tail(parts))

\* dict.get(key, default)
Get(item, key, default) == IF key \in DOMAIN item THEN item[key] ELSE default

\* Python's None, and a str return value
None == [kind |-> "None"]
Str(s) == [kind |-> "str", val |-> s]

\* the value of a missing id / target_id (None is falsy)
NoneId == 0
Truthy(id) == id # NoneId

Range(s) == {s[i] : i \in DOMAIN s}


Take(s, n) == SubSeq(s, 1, IF Len(s) < n THEN Len(s) ELSE n)

RECURSIVE Flatten(_)
Flatten(ss) == IF ss = <<>> THEN <<>> ELSE Head(ss) \o Flatten(Tail(ss))

(***************************************************************************)
(* The knowledge source: Entity Records as loaded by json.load.  A record  *)
(* is a TLA+ record whose domain holds exactly the keys the JSON object    *)
(* has; ids are positive numbers standing for the distinct id strings.     *)
(* 'properties' is the sequence of the dict's values in insertion order,   *)
(* each tagged with its Python type: a str, a list of str, or a number.    *)
(***************************************************************************)
sEinstein == <<"E","i","n","s","t","e","i","n">>
sRelativity == <<"R","e","l","a","t","i","v","i","t","y">>
sPhotosynthesis == <<"P","h","o","t","o","s","y","n","t","h","e","s","i","s">>
sQueryPhoto == <<"p","h","o","t","o","s","y","n","t","h","e","s","i","s">>
sXyz == <<"x","y","z">>

RecEinstein ==
    [id |-> 1, entity |-> sEinstein,
     relationships |-> << [target_id |-> 2, relation_type |-> "developed",
                           description |-> "theory"] >>]

RecRelativity == [id |-> 2, entity |-> sRelativity]

RecPhotosynthesis ==
    [id |-> 3, entity |-> sPhotosynthesis, aliases |-> <<>>,
     summary |-> <<"S","1">>, description |-> <<"D","1">>,
     relationships |-> <<>>]

RecAb ==
    [id |-> 4, entity |-> <<"A","b"," ","a">>, type |-> "Concept",
     aliases |-> << <<"B">>, <<"b","A">> >>,
     summary |-> <<"a">>, description |-> <<"b"," ","A">>,
     properties |-> << [kind |-> "str", val |-> <<"A","B">>],
                       [kind |-> "list", val |-> << <<"a">>, <<"b","a">> >>],
                       [kind |-> "num", val |-> 3] >>,
     relationships |-> << [target_id |-> 5, relation_type |-> "uses",
                           description |-> "d1"],
                          [relation_type |-> "loose"],
                          [target_id |-> 99, relation_type |-> "gone",
                           description |-> "d2"],
                          [target_id |-> 2, relation_type |-> "cites",
                           description |-> "d3"] >>]

LeafId(i) == 100 + i

RecHub ==
    [id |-> 5, entity |-> <<"b">>, type |-> "Topic",
     aliases |-> << <<"a"," ","b">> >>,
     description |-> <<"b","b">>,
     relationships |->
        << [target_id |-> 4, relation_type |-> "part", description |-> "d4"],
           [target_id |-> 4, relation_type |-> "again", description |-> "d5"] >>
        \o [i \in 1..MaxLeaves |->
              [target_id |-> LeafId(i), relation_type |-> "has",
               description |-> "d6"]]]

LeafDigits == <<"a", "b", "A">>

\* leaf 3 has the name of RecHub: two records, one name
LeafName(i) ==
    IF i = 3 THEN <<"b">>
    ELSE <<"c", LeafDigits[((i \div 9) % 3) + 1], LeafDigits[((i \div 3) % 3) + 1],
           LeafDigits[(i % 3) + 1]>>

Leaf(i) ==
    IF i % 2 = 0
    THEN [id |-> LeafId(i), entity |-> LeafName(i), summary |-> <<"a">>]
    ELSE [id |-> LeafId(i), entity |-> LeafName(i)]

Catalogue == <<RecEinstein, RecRelativity, RecPhotosynthesis, RecAb, RecHub>>

RichPart(ids) == SelectSeq(Catalogue, LAMBDA r : r.id \in ids)

Leaves(k) == [i \in 1..k |-> Leaf(i)]

\* the stores the program is started on: every selection of the catalogue in
\* catalogue order, and two of them followed by 1..MaxLeaves leaf records
Stores ==
    {RichPart(ids) : ids \in SUBSET (1..Len(Catalogue))}
    \cup {RichPart(ids) \o Leaves(k) :
            ids \in {{5}, {4, 5}}, k \in 1..MaxLeaves}

\* the per-process string-hash seeds (PYTHONHASHSEED) of the model
HashSeeds == {0, 1}

\* the characters the enumerated inputs are made of
Alphabet == {"a", "A", "b", " "}

Strs(n) == UNION {[1..k -> Alphabet] : k \in 0..n}

Queries == Strs(MaxStrLen) \cup {sQueryPhoto, sXyz}

Candidates == {<<>>, sEinstein, sQueryPhoto, <<"b">>, <<"z","z">>}

EntityLists == UNION {[1..k -> Candidates] : k \in 0..MaxEntities}

\* the candidate names and entity lists get_related_content is called with
ContentCandidates == {<<>>, sEinstein, <<"b">>}

ContentEntityLists == UNION {[1..k -> ContentCandidates] : k \in 0..MaxEntities}


(***************************************************************************)
(* _entity_matches                                                         *)
(***************************************************************************)
\* as if the partial match were only `entity_lower in item_entity.split()`
entity_matches_whole_token(entity, kg_item) ==
    LET entity_lower == Lower(entity)
        item_entity == Lower(Get(kg_item, "entity", <<>>))
        raw_aliases == Get(kg_item, "aliases", <<>>)
        aliases == [i \in 1..Len(raw_aliases) |-> Lower(raw_aliases[i])]
        words == Split(item_entity)
    IN  \/ Contains(entity_lower, item_entity) \/ Contains(item_entity, entity_lower)
        \/ \E i \in 1..Len(aliases) :
              Contains(aliases[i], entity_lower) \/ Contains(entity_lower, aliases[i])
        \/ \E i \in 1..Len(words) : words[i] = entity_lower

entity_matches(entity, kg_item) ==
    LET entity_lower == Lower(entity)
        item_entity == Lower(Get(kg_item, "entity", <<>>))
        raw_aliases == Get(kg_item, "aliases", <<>>)
        aliases == [i \in 1..Len(raw_aliases) |-> Lower(raw_aliases[i])]
        words == Split(item_entity)
    IN  IF Contains(entity_lower, item_entity) \/ Contains(item_entity, entity_lower)
        THEN TRUE
        ELSE IF \E i \in 1..Len(aliases) :
                   Contains(aliases[i], entity_lower) \/ Contains(entity_lower, aliases[i])
        THEN TRUE
        ELSE IF (\E i \in 1..Len(words) : words[i] = entity_lower)
                \/ (\E i \in 1..Len(words) : Contains(words[i], entity_lower))
        THEN TRUE
        ELSE FALSE

(***************************************************************************)
(* search_knowledge                                                        *)
(***************************************************************************)
TopK == 5

\* as if the alias loop stopped at the first alias that matches
AliasScoreOnce(query_lower, aliases, i) ==
    IF \E a \in i..Len(aliases) : Contains(query_lower, Lower(aliases[a]))
    THEN 2 ELSE 0

RECURSIVE AliasScore(_, _, _)
\* the loop over item.get('aliases', [])
AliasScore(query_lower, aliases, i) ==
    IF i > Len(aliases) THEN 0
    ELSE (IF Contains(query_lower, Lower(aliases[i])) THEN 2 ELSE 0)
         + AliasScore(query_lower, aliases, i + 1)

RECURSIVE ListScore(_, _, _)
\* the loop over the elements of a list-valued property; the elements are
\* str, on which str(val) returns val
ListScore(query_lower, vals, j) ==
    IF j > Len(vals) THEN 0
    ELSE (IF Contains(query_lower, Lower(vals[j])) THEN 1 ELSE 0)
         + ListScore(query_lower, vals, j + 1)

RECURSIVE PropScore(_, _, _)
\* the loop over item.get('properties', {}).values()
PropScore(query_lower, props, i) ==
    IF i > Len(props) THEN 0
    ELSE (IF props[i].kind = "str"
          THEN (IF Contains(query_lower, Lower(props[i].val)) THEN 1 ELSE 0)
          ELSE IF props[i].kind = "list"
          THEN ListScore(query_lower, props[i].val, 1)
          ELSE 0)
         + PropScore(query_lower, props, i + 1)

\* the relevance_score accumulated for one item
RelevanceScore(query_lower, item) ==
    (IF Contains(query_lower, Lower(Get(item, "entity", <<>>))) THEN 3 ELSE 0)
    + AliasScore(query_lower, Get(item, "aliases", <<>>), 1)
    + (IF Contains(query_lower, Lower(Get(item, "summary", <<>>))) THEN 1 ELSE 0)
    + (IF Contains(query_lower, Lower(Get(item, "description", <<>>))) THEN 1 ELSE 0)
    + PropScore(query_lower, Get(item, "properties", <<>>), 1)

\* as if the test were relevance_score >= 0
KeepResultNonNegative(relevance_score) == relevance_score >= 0

\* if relevance_score > 0
KeepResult(relevance_score) == relevance_score > 0

RECURSIVE ScoredFrom(_, _)
\* the loop over kg_data that fills results
ScoredFrom(query_lower, i) ==
    IF i > Len(kg_data) THEN <<>>
    ELSE LET relevance_score == RelevanceScore(query_lower, kg_data[i])
         IN  (IF KeepResult(relevance_score)
              THEN << [item |-> kg_data[i], relevance_score |-> relevance_score] >>
              ELSE <<>>)
             \o ScoredFrom(query_lower, i + 1)

RECURSIVE InsertDescBeforeEqual(_, _)
\* as if the sort put a record before the records of equal score
InsertDescBeforeEqual(sorted, x) ==
    IF sorted = <<>> THEN <<x>>
    ELSE IF Head(sorted).relevance_score > x.relevance_score
         THEN <<Head(sorted)>> \o InsertDescBeforeEqual(Tail(sorted), x)
         ELSE <<x>> \o sorted

RECURSIVE InsertDesc(_, _)
InsertDesc(sorted, x) ==
    IF sorted = <<>> THEN <<x>>
    ELSE IF Head(sorted).relevance_score >= x.relevance_score
         THEN <<Head(sorted)>> \o InsertDesc(Tail(sorted), x)
         ELSE <<x>> \o sorted

RECURSIVE InsertAsc(_, _)
InsertAsc(sorted, x) ==
    IF sorted = <<>> THEN <<x>>
    ELSE IF Head(sorted).relevance_score <= x.relevance_score
         THEN <<Head(sorted)>> \o InsertAsc(Tail(sorted), x)
         ELSE <<x>> \o sorted

RECURSIVE SortAscFrom(_, _, _)
SortAscFrom(results, i, acc) ==
    IF i > Len(results) THEN acc
    ELSE SortAscFrom(results, i + 1, InsertAsc(acc, results[i]))

RECURSIVE SortDescFrom(_, _, _)
SortDescFrom(results, i, acc) ==
    IF i > Len(results) THEN acc
    ELSE SortDescFrom(results, i + 1, InsertDesc(acc, results[i]))

\* as if reverse=True were missing
SortByScoreAscending(results) == SortAscFrom(results, 1, <<>>)

\* results.sort(key=relevance_score, reverse=True): stable, descending
SortByScore(results) == SortDescFrom(results, 1, <<>>)

\* as if the slice came before the sort: results[:5] and then sort
search_knowledge_cut_first(query) ==
    IF query = <<>> \/ kg_data = <<>>
    THEN <<>>
    ELSE SortByScore(Take(ScoredFrom(Lower(query), 1), TopK))

search_knowledge(query) ==
    IF query = <<>> \/ kg_data = <<>>
    THEN <<>>
    ELSE Take(SortByScore(ScoredFrom(Lower(query), 1)), TopK)


(***************************************************************************)
(* query_knowledge_base                                                    *)
(***************************************************************************)
\* as if the f-string had no space between its two fields
ResultTextNoSpace(item) ==
    Get(item, "summary", <<>>) \o Get(item, "description", <<>>)

\* f"{item.get('summary', '')} {item.get('description', '')}"
ResultText(item) ==
    Get(item, "summary", <<>>) \o <<" ">> \o Get(item, "description", <<>>)

\* as if the loops were `for entity in entities: for item in kg_data`, one
\* hit per (entity, item) pair that matches
QkbHitsPerEntity(entities) ==
    Flatten([j \in 1..Len(entities) |->
               SelectSeq([i \in 1..Len(kg_data) |-> i],
                         LAMBDA i : entity_matches(entities[j], kg_data[i]))])

\* the indices of the items appended to results, in the order appended:
\* for item in kg_data: if any(_entity_matches(entity, item) for entity ...)
QkbHits(entities) ==
    SelectSeq([i \in 1..Len(kg_data) |-> i],
              LAMBDA i : \E j \in 1..Len(entities) :
                            entity_matches(entities[j], kg_data[i]))

QkbResults(hits) == [k \in 1..Len(hits) |-> ResultText(kg_data[hits[k]])]

\* as if the return were " ".join(results) without the None case
QkbReturnJoined(results) == Str(JoinSp(results))

\* return " ".join(results) if results else None
QkbReturn(results) == IF results # <<>> THEN Str(JoinSp(results)) ELSE None

\* the returned context, with the indices of the items that produced it
query_knowledge_base(entities) ==
    IF entities = <<>> \/ kg_data = <<>>
    THEN [value |-> None, hits |-> <<>>]
    ELSE LET hits == QkbHits(entities)
         IN  [value |-> QkbReturn(QkbResults(hits)), hits |-> hits]

(***************************************************************************)
(* get_related_topics                                                      *)
(***************************************************************************)
TopicsLimit == 10

IdIndices(target_id) ==
    {i \in 1..Len(kg_data) : Get(kg_data[i], "id", NoneId) = target_id}

Min(S) == CHOOSE x \in S : \A y \in S : x <= y

\* as if the default of next(...) were the first record instead of None
FindByIdOrFirst(target_id) ==
    IF IdIndices(target_id) = {} THEN kg_data[1]
    ELSE kg_data[Min(IdIndices(target_id))]

\* next((i for i in self.kg_data if i.get('id') == target_id), None)
FindById(target_id) ==
    IF IdIndices(target_id) = {} THEN None
    ELSE kg_data[Min(IdIndices(target_id))]

\* the name one relationship adds to related_topics, as a list of 0 or 1 names
EdgeName(relationship) ==
    LET target_id == Get(relationship, "target_id", NoneId)
    IN  IF Truthy(target_id)
        THEN LET related_item == FindById(target_id)
             IN  IF related_item # None
                 THEN << Get(related_item, "entity", <<>>) >>
                 ELSE <<>>
        ELSE <<>>

\* as if the loop over the relationships stopped after the first edge
FirstEdgeNames(item) ==
    LET relationships == Get(item, "relationships", <<>>)
    IN  IF relationships = <<>> THEN <<>> ELSE EdgeName(relationships[1])

\* for relationship in item.get('relationships', []): the names added, in order
EdgeNames(item) ==
    LET relationships == Get(item, "relationships", <<>>)
    IN  Flatten([r \in 1..Len(relationships) |-> EdgeName(relationships[r])])

\* every related_topics.add(...) of the two outer loops, in execution order
TopicAdds(entities) ==
    Flatten([j \in 1..Len(entities) |->
        Flatten([i \in 1..Len(kg_data) |->
            IF entity_matches(entities[j], kg_data[i])
            THEN EdgeNames(kg_data[i])
            ELSE <<>>])])

RECURSIVE DedupFrom(_, _, _)
DedupFrom(s, i, acc) ==
    IF i > Len(s) THEN acc
    ELSE DedupFrom(s, i + 1,
                   IF s[i] \in Range(acc) THEN acc ELSE Append(acc, s[i]))

\* as if related_topics were a list: every add is kept
KeepAll(adds) == adds

\* the members of the set related_topics, by first insertion
SetMembers(adds) == DedupFrom(adds, 1, <<>>)

\* as if the iteration order of the set changed from one call to the next
HashOrderPerCall(members, seed) ==
    LET n == Len(members)
        shift == IF op = "idle" THEN seed ELSE seed + 1
    IN  [i \in 1..n |-> members[((i - 1 + shift) % n) + 1]]

\* list(related_topics): the iteration order of a set of str is fixed by the
\* process's hash seed; here a rotation by the seed, reversed for odd seeds
HashOrder(members, seed) ==
    LET n == Len(members)
        rotated == [i \in 1..n |-> members[((i - 1 + seed) % n) + 1]]
    IN  IF seed % 2 = 1 THEN [i \in 1..n |-> rotated[n + 1 - i]] ELSE rotated

get_related_topics(entities) ==
    IF entities = <<>> \/ kg_data = <<>>
    THEN <<>>
    ELSE Take(HashOrder(SetMembers(TopicAdds(entities)), hash_seed), TopicsLimit)

(***************************************************************************)
(* get_related_content                                                     *)
(***************************************************************************)
ContentLimit == 10

\* dict.get(key) with no default: the value, or None
GetOpt(item, key) ==
    IF key \in DOMAIN item THEN [kind |-> "val", val |-> item[key]] ELSE None

MainTopic(item) ==
    [type |-> "main_topic",
     entity |-> GetOpt(item, "entity"),
     summary |-> GetOpt(item, "summary"),
     description |-> GetOpt(item, "description")]

\* the item one relationship appends, as a list of 0 or 1 items
RelatedTopic(relationship) ==
    LET target_id == Get(relationship, "target_id", NoneId)
    IN  IF Truthy(target_id)
        THEN LET related_item == FindById(target_id)
             IN  IF related_item # None
                 THEN << [type |-> "related_topic",
                          entity |-> GetOpt(related_item, "entity"),
                          summary |-> GetOpt(related_item, "summary"),
                          relationship |-> GetOpt(relationship, "relation_type"),
                          description |-> GetOpt(relationship, "description")] >>
                 ELSE <<>>
        ELSE <<>>

\* what a matched item appends: its main_topic, then its related_topics
ItemContent(item) ==
    LET relationships == Get(item, "relationships", <<>>)
    IN  <<MainTopic(item)>>
        \o Flatten([r \in 1..Len(relationships) |-> RelatedTopic(relationships[r])])

\* as if the loops were `for item in kg_data: for entity in entities`
ContentAddsPerItem(entities) ==
    Flatten([i \in 1..Len(kg_data) |->
        Flatten([j \in 1..Len(entities) |->
            IF entity_matches(entities[j], kg_data[i])
            THEN ItemContent(kg_data[i])
            ELSE <<>>])])

\* every related_content.append(...) of the two outer loops, in order
ContentAdds(entities) ==
    Flatten([j \in 1..Len(entities) |->
        Flatten([i \in 1..Len(kg_data) |->
            IF entity_matches(entities[j], kg_data[i])
            THEN ItemContent(kg_data[i])
            ELSE <<>>])])

\* as if the return were related_content, without the slice
CutContentNone(related_content) == related_content

\* related_content[:10]
CutContent(related_content) == Take(related_content, ContentLimit)

get_related_content(entities) ==
    IF entities = <<>> \/ kg_data = <<>>
    THEN <<>>
    ELSE CutContent(ContentAdds(entities))

(***************************************************************************)
(* get_entity_details                                                      *)
(***************************************************************************)
\* as if the loop kept going and returned the last match
get_entity_details_last(entity_name) ==
    IF entity_name = <<>> \/ kg_data = <<>>
    THEN None
    ELSE LET hits == {i \in 1..Len(kg_data) : entity_matches(entity_name, kg_data[i])}
         IN  IF hits = {} THEN None
             ELSE kg_data[CHOOSE x \in hits : \A y \in hits : y <= x]

get_entity_details(entity_name) ==
    IF entity_name = <<>> \/ kg_data = <<>>
    THEN None
    ELSE LET hits == {i \in 1..Len(kg_data) : entity_matches(entity_name, kg_data[i])}
         IN  IF hits = {} THEN None ELSE kg_data[Min(hits)]

(***************************************************************************)
(* get_knowledge_graph_stats                                               *)
(***************************************************************************)
RECURSIVE EntityTypesFrom(_, _)
\* entity_types[entity_type] = entity_types.get(entity_type, 0) + 1, per item
EntityTypesFrom(i, entity_types) ==
    IF i > Len(kg_data) THEN entity_types
    ELSE LET entity_type == Get(kg_data[i], "type", "Unknown")
             count == IF entity_type \in DOMAIN entity_types
                      THEN entity_types[entity_type] ELSE 0
         IN  EntityTypesFrom(i + 1,
                 (entity_type :> (count + 1)) @@ entity_types)

\* as if only the edges that resolve to a record were counted
ResolvableEdgeCount(item) ==
    Len(SelectSeq(Get(item, "relationships", <<>>),
                  LAMBDA e : IdIndices(Get(e, "target_id", NoneId)) # {}))

\* len(item.get('relationships', []))
EdgeCount(item) == Len(Get(item, "relationships", <<>>))

RECURSIVE TotalRelationshipsFrom(_)
TotalRelationshipsFrom(i) ==
    IF i > Len(kg_data) THEN 0
    ELSE EdgeCount(kg_data[i]) + TotalRelationshipsFrom(i + 1)

\* a / b on int: the exact quotient, as a fraction
TrueDiv(a, b) == [num |-> a, den |-> b]

\* the int 0 of the else branch
IntZero == [num |-> 0, den |-> 1]

\* the whole dict, as the final return statement builds it
FullStats ==
    LET total_relationships == TotalRelationshipsFrom(1)
    IN  [total_entities |-> Len(kg_data),
         entity_types |-> EntityTypesFrom(1, << >>),
         total_relationships |-> total_relationships,
         average_relationships_per_entity |->
             IF kg_data # <<>>
             THEN TrueDiv(total_relationships, Len(kg_data))
             ELSE IntZero]

get_knowledge_graph_stats ==
    IF kg_data = <<>>
    THEN [total_entities |-> 0]
    ELSE FullStats

\* the exception a call of get_knowledge_graph_stats ends with ("" for none):
\* the division is reached only behind `if not self.kg_data: return`
StatsRaises ==
    IF kg_data = <<>> THEN ""
    ELSE IF Len(kg_data) = 0 THEN "ZeroDivisionError" ELSE ""

(***************************************************************************)
(* __init__: the knowledge source is read once.                            *)
(***************************************************************************)
\* what data_path holds when it holds a list of records, or fails to load:
\* no file, or text that is not JSON
Sources ==
    {[kind |-> "missing"], [kind |-> "unparseable"]}
    \cup {[kind |-> "records", records |-> st] : st \in Stores}

\* the keys of the JSON objects a source may hold instead of a list
ObjectKeys == {<<>>, <<"entities">>, <<"version", "entities">>}

\* what data_path holds when it holds no list of records: no file, text that
\* is not JSON, a JSON number or null, or a JSON object
BadSources ==
    {[kind |-> "missing"], [kind |-> "unparseable"], [kind |-> "scalar"]}
    \cup {[kind |-> "object", keys |-> ks] : ks \in ObjectKeys}

\* try: kg_data = json.load(f); print(len(kg_data))  except Exception:
\* kg_data = [].  json.load returns whatever JSON value the file holds: a
\* number or null fails at len() and is replaced by []; an object is kept,
\* and iterating it yields its keys, which are str and not records.
Load(src) ==
    CASE src.kind = "records" -> src.records
      [] src.kind = "object" -> [k \in 1..Len(src.keys) |-> [pystr |-> src.keys[k]]]
      [] OTHER -> <<>>

\* as if the fields were read by item['aliases'] instead of item.get(...)
ItemRaisesOnMissingKey(item) ==
    IF "pystr" \in DOMAIN item THEN "AttributeError"
    ELSE IF "aliases" \notin DOMAIN item THEN "KeyError" ELSE ""

\* item.get(...) on an element of the store: a str has no attribute 'get'
ItemRaises(item) ==
    IF "pystr" \in DOMAIN item THEN "AttributeError" ELSE ""

\* the first exception of a loop that calls .get on every element in order
LoopRaises ==
    IF \E i \in 1..Len(kg_data) : ItemRaises(kg_data[i]) # ""
    THEN ItemRaises(kg_data[Min({i \in 1..Len(kg_data) : ItemRaises(kg_data[i]) # ""})])
    ELSE ""

\* the exception a call ends with, "" for none; a store holds records only
\* or no record at all, so a loop that reaches a non-record does so at once
RaisesOf(o, a) ==
    CASE o = "_entity_matches" -> ItemRaises(a.kg_item)
      [] o = "get_knowledge_graph_stats" ->
             IF kg_data = <<>> THEN ""
             ELSE IF LoopRaises # "" THEN LoopRaises ELSE StatsRaises
      [] OTHER -> IF a = <<>> \/ kg_data = <<>> THEN "" ELSE LoopRaises

(***************************************************************************)
(* The state machine: the store is loaded once; a caller makes one call at *)
(* a time (op, arg, ret hold the call and its result, raised the exception *)
(* it ended with, "" for none) and takes the result before it calls again. *)
(***************************************************************************)
NoPrev == [kind |-> "none"]

\* the query operations of KnowledgeGraph
Operations ==
    {"query_knowledge_base", "search_knowledge", "get_related_topics",
     "get_related_content", "get_entity_details", "get_knowledge_graph_stats"}

\* the threads that call into the one KnowledgeGraph object
CallerIds == {"c1", "c2"}

\* results = [] / related_topics = set() / entity_types = {}; total = 0
AccInit(o) ==
    IF o = "get_knowledge_graph_stats"
    THEN [entity_types |-> << >>, total_relationships |-> 0]
    ELSE <<>>

\* AssistantPipeline is in no call of process_text_message
PipeIdle == [pc |-> "idle"]

\* NLPCore is in no call of generate_response
NlpIdle == [pc |-> "idle"]

\* AssistantPipeline is in no call of get_session_insights
InsightsIdle == [pc |-> "idle", depth |-> 0, exhausted |-> FALSE]

\* a /api/chat request that has not been received yet
RequestNew ==
    [pc |-> "new", body |-> [kind |-> "none"], response |-> "",
     position |-> 0, status |-> 0, conversation_id |-> 0]

\* the web application after import: conversation_history = [], the
\* student_session without an id, no request received
WebStart ==
    [conversation_history |-> <<>>,
     student_session |-> [session_id |-> None, started |-> FALSE,
                          questions_asked |-> 0],
     requests |-> [r \in RequestIds |-> RequestNew]]

\* a caller of the VoiceInterface that is in no call; last is what it saw
\* when its last call returned
VoiceCallerIdle ==
    [pc |-> "idle", target |-> 0,
     last |-> [call |-> "none", raised |-> "", is_recording |-> FALSE,
               alive |-> {}]]

\* VoiceInterface.__init__: is_recording = False, recording_thread = None,
\* audio_frames = []; no thread exists, no caller is in a call
VoiceStart ==
    [is_recording |-> FALSE, recording_thread |-> 0, audio_frames |-> <<>>,
     threads |-> [t \in ThreadIds |-> "unborn"],
     callers |-> [c \in VoiceCallers |-> VoiceCallerIdle]]

\* StudentAnalytics.__init__: sessions = {}, interactions = []
AnalyticsStart ==
    [sessions |-> << >>, interactions |-> <<>>, calls |-> <<>>,
     returned |-> [op |-> "__init__", raised |-> ""]]

\* the components other than the knowledge graph and the history, as they
\* are after construction
OthersAtStart ==
    /\ nlp = NlpIdle
    /\ completed = 0
    /\ insights = InsightsIdle
    /\ web = WebStart
    /\ voice = VoiceStart
    /\ analytics = AnalyticsStart

\* a caller that is in no call
IdleFrame == [pc |-> "idle", op |-> "", arg |-> <<>>, pos |-> 0, ret |-> <<>>]

Init ==
    /\ source \in Sources
    /\ kg_data = Load(source)
    /\ hash_seed \in HashSeeds
    /\ op = "idle"
    /\ arg = <<>>
    /\ ret = <<>>
    /\ raised = ""
    /\ prev = NoPrev
    /\ callers = [c \in CallerIds |-> IdleFrame]
    /\ locals = [slot \in CallerIds \X Operations |-> AccInit(slot[2])]
    /\ conversation_history = <<>>
    /\ pipe = PipeIdle
    /\ OthersAtStart

CallEntityMatches ==
    \E entity \in Strs(MaxStrLen) \cup Candidates, i \in 1..Len(kg_data) :
        /\ op = "idle"
        /\ op' = "_entity_matches"
        /\ arg' = [entity |-> entity, kg_item |-> kg_data[i]]
        /\ raised' = ItemRaises(kg_data[i])
        /\ ret' = IF raised' = "" THEN entity_matches(entity, kg_data[i]) ELSE <<>>
        /\ UNCHANGED <<kg_data, hash_seed, source, prev>>
        /\ UNCHANGED <<callers, locals, conversation_history, pipe>>
        /\ UNCHANGED <<nlp, completed, insights, web, voice, analytics>>

\* as if the sort were done in place on the store (self.kg_data.sort(...))
CallSearchKnowledgeSortsStore ==
    \E query \in Queries :
        /\ op = "idle"
        /\ op' = "search_knowledge"
        /\ arg' = query
        /\ raised' = RaisesOf("search_knowledge", query)
        /\ ret' = IF raised' = "" THEN search_knowledge(query) ELSE <<>>
        /\ kg_data' = IF query = <<>> \/ kg_data = <<>>
                      THEN kg_data
                      ELSE LET sorted == SortByScore(ScoredFrom(Lower(query), 1))
                           IN  [k \in 1..Len(sorted) |-> sorted[k].item]
        /\ UNCHANGED <<hash_seed, source, prev>>
        /\ UNCHANGED <<callers, locals, conversation_history, pipe>>
        /\ UNCHANGED <<nlp, completed, insights, web, voice, analytics>>

CallSearchKnowledge ==
    \E query \in Queries :
        /\ op = "idle"
        /\ op' = "search_knowledge"
        /\ arg' = query
        /\ raised' = RaisesOf("search_knowledge", query)
        /\ ret' = IF raised' = "" THEN search_knowledge(query) ELSE <<>>
        /\ UNCHANGED <<kg_data, hash_seed, source, prev>>
        /\ UNCHANGED <<callers, locals, conversation_history, pipe>>
        /\ UNCHANGED <<nlp, completed, insights, web, voice, analytics>>

CallQueryKnowledgeBase ==
    \E entities \in EntityLists :
        /\ op = "idle"
        /\ op' = "query_knowledge_base"
        /\ arg' = entities
        /\ raised' = RaisesOf("query_knowledge_base", entities)
        /\ ret' = IF raised' = "" THEN query_knowledge_base(entities) ELSE <<>>
        /\ UNCHANGED <<kg_data, hash_seed, source, prev>>
        /\ UNCHANGED <<callers, locals, conversation_history, pipe>>
        /\ UNCHANGED <<nlp, completed, insights, web, voice, analytics>>

CallGetRelatedTopics ==
    \E entities \in EntityLists :
        /\ op = "idle"
        /\ op' = "get_related_topics"
        /\ arg' = entities
        /\ raised' = RaisesOf("get_related_topics", entities)
        /\ ret' = IF raised' = "" THEN get_related_topics(entities) ELSE <<>>
        /\ UNCHANGED <<kg_data, hash_seed, source, prev>>
        /\ UNCHANGED <<callers, locals, conversation_history, pipe>>
        /\ UNCHANGED <<nlp, completed, insights, web, voice, analytics>>

CallGetRelatedContent ==
    \E entities \in ContentEntityLists :
        /\ op = "idle"
        /\ op' = "get_related_content"
        /\ arg' = entities
        /\ raised' = RaisesOf("get_related_content", entities)
        /\ ret' = IF raised' = "" THEN get_related_content(entities) ELSE <<>>
        /\ UNCHANGED <<kg_data, hash_seed, source, prev>>
        /\ UNCHANGED <<callers, locals, conversation_history, pipe>>
        /\ UNCHANGED <<nlp, completed, insights, web, voice, analytics>>

CallGetEntityDetails ==
    \E entity_name \in Candidates :
        /\ op = "idle"
        /\ op' = "get_entity_details"
        /\ arg' = entity_name
        /\ raised' = RaisesOf("get_entity_details", entity_name)
        /\ ret' = IF raised' = "" THEN get_entity_details(entity_name) ELSE <<>>
        /\ UNCHANGED <<kg_data, hash_seed, source, prev>>
        /\ UNCHANGED <<callers, locals, conversation_history, pipe>>
        /\ UNCHANGED <<nlp, completed, insights, web, voice, analytics>>

CallGetKnowledgeGraphStats ==
    /\ op = "idle"
    /\ op' = "get_knowledge_graph_stats"
    /\ arg' = <<>>
    /\ raised' = RaisesOf("get_knowledge_graph_stats", <<>>)
    /\ ret' = IF raised' = "" THEN get_knowledge_graph_stats ELSE <<>>
    /\ UNCHANGED <<kg_data, hash_seed, source, prev>>
    /\ UNCHANGED <<callers, locals, conversation_history, pipe>>
    /\ UNCHANGED <<nlp, completed, insights, web, voice, analytics>>

\* the caller takes the result
Return ==
    /\ op # "idle"
    /\ op' = "idle"
    /\ arg' = <<>>
    /\ ret' = <<>>
    /\ raised' = ""
    /\ prev' = NoPrev
    /\ UNCHANGED <<kg_data, hash_seed, source>>
    /\ UNCHANGED <<callers, locals, conversation_history, pipe>>
    /\ UNCHANGED <<nlp, completed, insights, web, voice, analytics>>

Next ==
    \/ CallEntityMatches
    \/ CallSearchKnowledge
    \/ CallQueryKnowledgeBase
    \/ CallGetRelatedTopics
    \/ CallGetRelatedContent
    \/ CallGetEntityDetails
    \/ CallGetKnowledgeGraphStats
    \/ Return

Spec == Init /\ [][Next]_vars

(***************************************************************************)
(* The program started on a source that holds no list of records.          *)
(***************************************************************************)
InitLoad ==
    /\ source \in BadSources
    /\ kg_data = Load(source)
    /\ hash_seed \in HashSeeds
    /\ op = "idle"
    /\ arg = <<>>
    /\ ret = <<>>
    /\ raised = ""
    /\ prev = NoPrev
    /\ callers = [c \in CallerIds |-> IdleFrame]
    /\ locals = [slot \in CallerIds \X Operations |-> AccInit(slot[2])]
    /\ conversation_history = <<>>
    /\ pipe = PipeIdle
    /\ OthersAtStart

SpecLoad == InitLoad /\ [][Next]_vars

(***************************************************************************)
(* The program started on stores with records whose entity name is empty  *)
(* or missing.                                                             *)
(***************************************************************************)
RecNoName == [id |-> 6, summary |-> <<"n">>]

RecEmptyName == [id |-> 7, entity |-> <<>>, description |-> <<"e">>]

NamelessStores ==
    {<<RecNoName>>, <<RecEmptyName>>, <<RecEinstein, RecNoName>>,
     <<RecEmptyName, RecPhotosynthesis, RecNoName>>,
     <<RecEinstein, RecRelativity, RecPhotosynthesis>>}

InitNameless ==
    /\ source \in {[kind |-> "records", records |-> st] : st \in NamelessStores}
    /\ kg_data = Load(source)
    /\ hash_seed \in HashSeeds
    /\ op = "idle"
    /\ arg = <<>>
    /\ ret = <<>>
    /\ raised = ""
    /\ prev = NoPrev
    /\ callers = [c \in CallerIds |-> IdleFrame]
    /\ locals = [slot \in CallerIds \X Operations |-> AccInit(slot[2])]
    /\ conversation_history = <<>>
    /\ pipe = PipeIdle
    /\ OthersAtStart

SpecNameless == InitNameless /\ [][Next]_vars

(***************************************************************************)
(* The same call made a second time: the caller keeps the first result in  *)
(* prev and calls the operation again with the input it has just used.     *)
(***************************************************************************)
\* the result of the operation o on input a, in the current state
ResultOf(o, a) ==
    CASE o = "_entity_matches" -> entity_matches(a.entity, a.kg_item)
      [] o = "search_knowledge" -> search_knowledge(a)
      [] o = "query_knowledge_base" -> query_knowledge_base(a)
      [] o = "get_related_topics" -> get_related_topics(a)
      [] o = "get_related_content" -> get_related_content(a)
      [] o = "get_entity_details" -> get_entity_details(a)
      [] o = "get_knowledge_graph_stats" -> get_knowledge_graph_stats

CallAgain ==
    /\ op # "idle"
    /\ prev = NoPrev
    /\ prev' = [kind |-> "some", ret |-> ret, raised |-> raised]
    /\ raised' = RaisesOf(op, arg)
    /\ ret' = IF raised' = "" THEN ResultOf(op, arg) ELSE <<>>
    /\ UNCHANGED <<kg_data, hash_seed, source, op, arg>>
    /\ UNCHANGED <<callers, locals, conversation_history, pipe>>
    /\ UNCHANGED <<nlp, completed, insights, web, voice, analytics>>

NextRepeat ==
    \/ CallEntityMatches
    \/ CallSearchKnowledge
    \/ CallQueryKnowledgeBase
    \/ CallGetRelatedTopics
    \/ CallGetRelatedContent
    \/ CallGetEntityDetails
    \/ CallGetKnowledgeGraphStats
    \/ CallAgain
    \/ Return

\* the stores of the repeated calls: the hub with its leaves, with and
\* without the record the hub points back to, and the failed load
RepeatSources ==
    {[kind |-> "missing"]}
    \cup {[kind |-> "records", records |-> RichPart(ids) \o Leaves(k)] :
            ids \in {{5}, {4, 5}}, k \in 1..MaxLeaves}

InitRepeat ==
    /\ source \in RepeatSources
    /\ kg_data = Load(source)
    /\ hash_seed \in HashSeeds
    /\ op = "idle"
    /\ arg = <<>>
    /\ ret = <<>>
    /\ raised = ""
    /\ prev = NoPrev
    /\ callers = [c \in CallerIds |-> IdleFrame]
    /\ locals = [slot \in CallerIds \X Operations |-> AccInit(slot[2])]
    /\ conversation_history = <<>>
    /\ pipe = PipeIdle
    /\ OthersAtStart

SpecRepeat == InitRepeat /\ [][NextRepeat]_vars

(***************************************************************************)
(* Concurrent callers.  Each caller runs one operation at a time, one      *)
(* iteration of the operation's outer loop per step, so that the calls of  *)
(* different threads interleave between any two iterations.  callers[c] is *)
(* the frame of caller c (its position in the loop), locals[<<c, o>>] the  *)
(* local accumulator of its call of o: results, related_topics,            *)
(* related_content, or the two stats counters.                             *)
(***************************************************************************)
ConcStores ==
    {<<RecEinstein, RecRelativity, RecPhotosynthesis>>, <<RecAb, RecHub>>}

\* the inputs the concurrent callers use
ConcArgs(o) ==
    CASE o = "search_knowledge" -> {<<"a">>, sQueryPhoto, <<>>}
      [] o = "get_entity_details" -> {sEinstein, <<"b">>}
      [] o = "get_knowledge_graph_stats" -> {<<>>}
      [] OTHER -> {<<sEinstein>>, << <<"b">>, sEinstein >>, << <<"a">> >>}

\* the accumulator a call works on: a local of the call
AccSlotShared(c, o) == <<"c1", o>>

AccSlot(c, o) == <<c, o>>

\* `if not <input> or not self.kg_data: return <empty>`
EmptyGuard(o, a) ==
    IF o = "get_knowledge_graph_stats" THEN kg_data = <<>>
    ELSE a = <<>> \/ kg_data = <<>>

EmptyResult(o) ==
    CASE o = "query_knowledge_base" -> [value |-> None, hits |-> <<>>]
      [] o = "get_entity_details" -> None
      [] o = "get_knowledge_graph_stats" -> [total_entities |-> 0]
      [] OTHER -> <<>>

\* the sequence the outer loop runs over has this many elements
LoopLen(o, a) ==
    IF o \in {"get_related_topics", "get_related_content"}
    THEN Len(a) ELSE Len(kg_data)

\* one iteration of the outer loop of o, at position i
AccStep(o, a, i, loc) ==
    CASE o = "query_knowledge_base" ->
             IF \E j \in 1..Len(a) : entity_matches(a[j], kg_data[i])
             THEN Append(loc, i) ELSE loc
      [] o = "search_knowledge" ->
             LET relevance_score == RelevanceScore(Lower(a), kg_data[i])
             IN  IF KeepResult(relevance_score)
                 THEN Append(loc, [item |-> kg_data[i],
                                      relevance_score |-> relevance_score])
                 ELSE loc
      [] o = "get_related_topics" -> loc \o TopicAdds(<<a[i]>>)
      [] o = "get_related_content" -> loc \o ContentAdds(<<a[i]>>)
      [] o = "get_entity_details" -> loc
      [] o = "get_knowledge_graph_stats" ->
             LET entity_type == Get(kg_data[i], "type", "Unknown")
                 count == IF entity_type \in DOMAIN loc.entity_types
                          THEN loc.entity_types[entity_type] ELSE 0
             IN  [entity_types |-> (entity_type :> (count + 1)) @@ loc.entity_types,
                  total_relationships |->
                      loc.total_relationships + EdgeCount(kg_data[i])]

\* the return statement after the loop
AccResult(o, loc) ==
    CASE o = "query_knowledge_base" ->
             [value |-> QkbReturn(QkbResults(loc)), hits |-> loc]
      [] o = "search_knowledge" -> Take(SortByScore(loc), TopK)
      [] o = "get_related_topics" ->
             Take(HashOrder(SetMembers(loc), hash_seed), TopicsLimit)
      [] o = "get_related_content" -> CutContent(loc)
      [] o = "get_entity_details" -> None
      [] o = "get_knowledge_graph_stats" ->
             [total_entities |-> Len(kg_data),
              entity_types |-> loc.entity_types,
              total_relationships |-> loc.total_relationships,
              average_relationships_per_entity |->
                  TrueDiv(loc.total_relationships, Len(kg_data))]

InitConc ==
    /\ source \in {[kind |-> "records", records |-> st] : st \in ConcStores}
    /\ kg_data = Load(source)
    /\ hash_seed \in HashSeeds
    /\ op = "idle"
    /\ arg = <<>>
    /\ ret = <<>>
    /\ raised = ""
    /\ prev = NoPrev
    /\ callers = [c \in CallerIds |-> IdleFrame]
    /\ locals = [slot \in CallerIds \X Operations |-> AccInit(slot[2])]
    /\ conversation_history = <<>>
    /\ pipe = PipeIdle
    /\ OthersAtStart

\* a caller enters an operation: the guard, then the locals are created
ConcBegin ==
    \E c \in CallerIds, o \in Operations :
        \E a \in ConcArgs(o) :
            /\ callers[c].pc = "idle"
            /\ IF EmptyGuard(o, a)
               THEN /\ callers' = [callers EXCEPT ![c] =
                          [pc |-> "done", op |-> o, arg |-> a, pos |-> 0,
                           ret |-> EmptyResult(o)]]
                    /\ locals' = locals
               ELSE /\ callers' = [callers EXCEPT ![c] =
                          [pc |-> "loop", op |-> o, arg |-> a, pos |-> 1,
                           ret |-> <<>>]]
                    /\ locals' = [locals EXCEPT ![AccSlot(c, o)] = AccInit(o)]
            /\ UNCHANGED <<kg_data, hash_seed, source, op, arg, ret, raised, prev>>
            /\ UNCHANGED <<conversation_history, pipe>>
            /\ UNCHANGED <<nlp, completed, insights, web, voice, analytics>>

\* one iteration of the loop; get_entity_details returns from inside it
ConcStep ==
    \E c \in CallerIds :
        LET f == callers[c]
        IN  /\ f.pc = "loop"
            /\ f.pos <= LoopLen(f.op, f.arg)
            /\ IF f.op = "get_entity_details"
                  /\ entity_matches(f.arg, kg_data[f.pos])
               THEN /\ callers' = [callers EXCEPT ![c] =
                          [f EXCEPT !.pc = "done", !.ret = kg_data[f.pos]]]
                    /\ locals' = [locals EXCEPT ![AccSlot(c, f.op)] = AccInit(f.op)]
               ELSE /\ callers' = [callers EXCEPT ![c] =
                          [f EXCEPT !.pos = f.pos + 1]]
                    /\ locals' = [locals EXCEPT ![AccSlot(c, f.op)] =
                          AccStep(f.op, f.arg, f.pos, locals[AccSlot(c, f.op)])]
            /\ UNCHANGED <<kg_data, hash_seed, source, op, arg, ret, raised, prev>>
            /\ UNCHANGED <<conversation_history, pipe>>
            /\ UNCHANGED <<nlp, completed, insights, web, voice, analytics>>

\* the loop is over: the result is built from the locals, which then die
ConcReturn ==
    \E c \in CallerIds :
        LET f == callers[c]
        IN  /\ f.pc = "loop"
            /\ f.pos > LoopLen(f.op, f.arg)
            /\ callers' = [callers EXCEPT ![c] =
                   [f EXCEPT !.pc = "done",
                             !.ret = AccResult(f.op, locals[AccSlot(c, f.op)])]]
            /\ locals' = [locals EXCEPT ![AccSlot(c, f.op)] = AccInit(f.op)]
            /\ UNCHANGED <<kg_data, hash_seed, source, op, arg, ret, raised, prev>>
            /\ UNCHANGED <<conversation_history, pipe>>
            /\ UNCHANGED <<nlp, completed, insights, web, voice, analytics>>

\* the caller takes the result and is free to call again
ConcTake ==
    \E c \in CallerIds :
        /\ callers[c].pc = "done"
        /\ callers' = [callers EXCEPT ![c] = IdleFrame]
        /\ UNCHANGED <<kg_data, hash_seed, source, op, arg, ret, raised, prev, locals>>
        /\ UNCHANGED <<conversation_history, pipe>>
        /\ UNCHANGED <<nlp, completed, insights, web, voice, analytics>>

NextConc ==
    \/ ConcBegin
    \/ ConcStep
    \/ ConcReturn
    \/ ConcTake

SpecConc == InitConc /\ [][NextConc]_vars

(***************************************************************************)
(* AssistantPipeline.process_text_message.  The NER pipeline and the       *)
(* language model are outside the program: what they give back is chosen   *)
(* by the environment.  A text argument is Str(s), None, or a number.      *)
(***************************************************************************)
MaxHistory == 2

Apology ==
    "I'm sorry, I encountered an error while processing your request. Please try again."

NotConfigured ==
    "I'm sorry, but I'm not properly configured to respond right now. Please check your API key setup."

Num(n) == [kind |-> "num", val |-> n]

PipeSources ==
    {[kind |-> "missing"],
     [kind |-> "object", keys |-> <<"entities">>],
     [kind |-> "records", records |-> <<RecEinstein, RecRelativity>>]}

PipeQuestions == {Str(sEinstein), Str(sXyz), None}

PipeContexts == {None, Str(<<>>), Str(<<"c">>), Num(5)}

\* what self.ner_pipe does: it is None (load failed), it raises, or it
\* returns entities
NerOutcomes ==
    {[kind |-> "unavailable"], [kind |-> "raises"]}
    \cup {[kind |-> "entities", val |-> es] : es \in {<<>>, <<sEinstein>>}}

\* what the language model does: no API key (self.model is None), a text,
\* or an exception inside generate_content
GenOutcomes == {"unconfigured", "text", "raises"}

\* the educational_keywords the model keeps
EducationalKeywords == <<sQueryPhoto, Lower(sEinstein)>>

\* an outcome of a stage: a value, or the exception it raised
Ok(v) == [raised |-> "", value |-> v]

Raise(e) == [raised |-> e, value |-> None]

\* KnowledgeGraph._extract_keywords: text.lower() needs a str
extract_keywords(text) ==
    IF text.kind # "str" THEN Raise("AttributeError")
    ELSE Ok(SelectSeq(EducationalKeywords,
                      LAMBDA keyword : Contains(keyword, Lower(text.val))))

\* KnowledgeGraph.extract_entities: the fallback runs inside the try when
\* there is no pipeline and inside the except clause when the pipeline
\* raises; an exception of the fallback in the except clause propagates
extract_entities(text, ner) ==
    IF ner.kind = "entities" /\ text.kind = "str"
    THEN Ok(ner.val)
    ELSE extract_keywords(text)

\* self.kg.query_knowledge_base(entities), with the exception it may end with
retrieve(entities) ==
    IF RaisesOf("query_knowledge_base", entities) # ""
    THEN Raise(RaisesOf("query_knowledge_base", entities))
    ELSE Ok(query_knowledge_base(entities).value)

\* `if x:` on a text argument
TruthyText(x) ==
    CASE x.kind = "None" -> FALSE
      [] x.kind = "str" -> x.val # <<>>
      [] x.kind = "num" -> x.val # 0

\* full_context = context, or f"{context + ' ' if context else ''}{kg_context}"
combine(context, kg_context) ==
    IF TruthyText(kg_context)
    THEN IF TruthyText(context)
         THEN IF context.kind = "str"
              THEN Ok(Str(context.val \o <<" ">> \o kg_context.val))
              ELSE Raise("TypeError")
         ELSE Ok(kg_context)
    ELSE Ok(context)

\* NLPCore.generate_response: never raises; an exception of the model is
\* answered inside it with the same apology text
generate_response(gen) ==
    CASE gen = "unconfigured" -> NotConfigured
      [] gen = "text" -> "answer"
      [] gen = "raises" -> Apology

\* as if the handler ended with `raise`
ExceptHandlerReraises(e, history) ==
    [result |-> None, propagated |-> e, handled |-> TRUE, history |-> history]

\* except Exception as e: print(...); return the apology
ExceptHandler(e, history) ==
    [result |-> [kind |-> "str", val |-> Apology], propagated |-> "",
     handled |-> TRUE, history |-> history]

\* as if the entry were inserted at the front of the history
CompletedPrepends(question_text, entities, kg_context, response_text, history) ==
    [result |-> [kind |-> "str", val |-> response_text], propagated |-> "",
     handled |-> FALSE,
     history |-> <<[user |-> question_text,
                    assistant |-> response_text,
                    entities |-> entities,
                    context_used |-> TruthyText(kg_context)]>> \o history]

\* the try block's last statements: append to the history, return the text
Completed(question_text, entities, kg_context, response_text, history) ==
    [result |-> [kind |-> "str", val |-> response_text], propagated |-> "",
     handled |-> FALSE,
     history |-> Append(history,
                        [user |-> question_text,
                         assistant |-> response_text,
                         entities |-> entities,
                         context_used |-> TruthyText(kg_context)])]

\* the whole call: its result, and the conversation_history it leaves
process_text_message(question_text, context, ner, gen) ==
    LET history == conversation_history
        entities == extract_entities(question_text, ner)
    IN  IF entities.raised # "" THEN ExceptHandler(entities.raised, history)
        ELSE LET kg_context == retrieve(entities.value)
             IN  IF kg_context.raised # ""
                 THEN ExceptHandler(kg_context.raised, history)
                 ELSE LET full_context == combine(context, kg_context.value)
                      IN  IF full_context.raised # ""
                          THEN ExceptHandler(full_context.raised, history)
                          ELSE Completed(question_text, entities.value,
                                         kg_context.value,
                                         generate_response(gen), history)

(***************************************************************************)
(* The operations of the pipeline that read the history                    *)
(***************************************************************************)
EmptyDict == [kind |-> "dict", empty |-> TRUE]

NoSummary == "No conversation to summarize."

\* NLPCore.analyze_question_complexity: the level it reports; the fallback
\* level stands for whatever the model's text parses to
analyze_question_complexity(gen) ==
    CASE gen = "unconfigured" -> "unknown"
      [] gen = "text" -> "intermediate"
      [] gen = "raises" -> "unknown"

\* NLPCore.summarize_conversation
summarize_conversation(history, gen) ==
    IF gen = "unconfigured" \/ history = <<>> THEN NoSummary
    ELSE IF gen = "text" THEN "summary"
    ELSE "Unable to generate conversation summary."

\* AssistantPipeline.get_conversation_summary
get_conversation_summary(gen) ==
    IF conversation_history = <<>> THEN NoSummary
    ELSE summarize_conversation(conversation_history, gen)

\* [msg['user'] for msg in self.conversation_history if msg.get('user')]
student_questions ==
    LET asked == SelectSeq(conversation_history,
                           LAMBDA msg : TruthyText(msg.user))
    IN  [i \in 1..Len(asked) |-> asked[i].user]

\* AssistantPipeline.detect_learning_gaps: the gaps the model names for the
\* most recent question, [] without history, model or on an exception
detect_learning_gaps(gen) ==
    IF conversation_history = <<>> \/ student_questions = <<>> THEN <<>>
    ELSE IF gen = "text"
         THEN <<[recent |-> student_questions[Len(student_questions)],
                 previous |-> Len(student_questions) - 1]>>
         ELSE <<>>

\* AssistantPipeline.analyze_question: {} when a stage raises
analyze_question(question, ner, gen) ==
    LET entities == extract_entities(question, ner)
    IN  IF entities.raised # "" THEN EmptyDict
        ELSE LET kg_context == retrieve(entities.value)
             IN  IF kg_context.raised # "" THEN EmptyDict
                 ELSE [kind |-> "dict", empty |-> FALSE,
                       complexity |-> analyze_question_complexity(gen),
                       entities |-> entities.value,
                       has_knowledge_context |-> TruthyText(kg_context.value),
                       suggested_topics |->
                           IF entities.value # <<>>
                           THEN get_related_topics(entities.value)
                           ELSE <<>>]

\* AssistantPipeline.get_learning_recommendations: the topic is the first
\* entity of the analysis, 'general learning' without one
get_learning_recommendations(question, ner, gen) ==
    LET analysis == analyze_question(question, ner, gen)
        found == ~analysis.empty /\ analysis.entities # <<>>
    IN  [kind |-> "dict", empty |-> FALSE,
         topic |-> IF found THEN Str(analysis.entities[1])
                   ELSE Str(<<"g">>),
         complexity_level |-> "intermediate",
         related_content |-> IF found
                             THEN get_related_content(analysis.entities)
                             ELSE <<>>]

\* a call of one of the reading operations has returned
ReadFrame(call, result) == [pc |-> "read", call |-> call, result |-> result]

\* the caller of the pipeline makes one call at a time
PipelineFree ==
    /\ pipe.pc = "idle"
    /\ nlp.pc = "idle"
    /\ insights.pc = "idle"

\* as if generate_response had no `if not self.model` guard
ModelCalledAlways(gen) == TRUE

\* whether self.model.generate_content is reached: not when self.model is None
ModelCalled(gen) == gen # "unconfigured"

InitPipeline ==
    /\ source \in PipeSources
    /\ kg_data = Load(source)
    /\ hash_seed = 0
    /\ op = "idle"
    /\ arg = <<>>
    /\ ret = <<>>
    /\ raised = ""
    /\ prev = NoPrev
    /\ callers = [c \in CallerIds |-> IdleFrame]
    /\ locals = [slot \in CallerIds \X Operations |-> AccInit(slot[2])]
    /\ conversation_history = <<>>
    /\ pipe = PipeIdle
    /\ OthersAtStart

ProcessTextMessage ==
    \E question_text \in PipeQuestions, context \in PipeContexts,
       ner \in NerOutcomes, gen \in GenOutcomes :
        /\ PipelineFree
        /\ Len(conversation_history) < MaxHistory
        /\ LET out == process_text_message(question_text, context, ner, gen)
           IN  /\ conversation_history' = out.history
               /\ completed' = IF out.handled THEN completed ELSE completed + 1
               /\ pipe' = [pc |-> "returned", result |-> out.result,
                           propagated |-> out.propagated,
                           handled |-> out.handled]
        /\ UNCHANGED <<kg_data, hash_seed, source, op, arg, ret, raised, prev>>
        /\ UNCHANGED <<callers, locals>>
        /\ UNCHANGED <<nlp, insights, web, voice, analytics>>

\* NLPCore.generate_response called on its own, as the component test does
GenerateResponse ==
    \E question \in PipeQuestions, gen \in GenOutcomes :
        /\ PipelineFree
        /\ nlp' = [pc |-> "returned", question |-> question, gen |-> gen,
                   result |-> [kind |-> "str", val |-> generate_response(gen)],
                   model_called |-> ModelCalled(gen),
                   propagated |-> ""]
        /\ UNCHANGED <<kg_data, hash_seed, source, op, arg, ret, raised, prev>>
        /\ UNCHANGED <<callers, locals, conversation_history, pipe>>
        /\ UNCHANGED <<completed, insights, web, voice, analytics>>

\* the caller takes the text
NlpTake ==
    /\ nlp.pc = "returned"
    /\ nlp' = NlpIdle
    /\ UNCHANGED <<kg_data, hash_seed, source, op, arg, ret, raised, prev>>
    /\ UNCHANGED <<callers, locals, conversation_history, pipe>>
    /\ UNCHANGED <<completed, insights, web, voice, analytics>>

\* the caller takes the response
PipeTake ==
    /\ pipe.pc = "returned"
    /\ pipe' = PipeIdle
    /\ UNCHANGED <<kg_data, hash_seed, source, op, arg, ret, raised, prev>>
    /\ UNCHANGED <<callers, locals, conversation_history>>
    /\ UNCHANGED <<nlp, completed, insights, web, voice, analytics>>

\* AssistantPipeline.run: nothing happens without a transcript; otherwise the
\* transcript goes through process_text_message and the response is spoken
Run ==
    \E heard \in PipeQuestions \cup {Str(<<>>)},
       ner \in NerOutcomes, gen \in GenOutcomes :
        /\ PipelineFree
        /\ Len(conversation_history) < MaxHistory
        /\ IF ~TruthyText(heard)
           THEN /\ pipe' = ReadFrame("run", None)
                /\ UNCHANGED <<conversation_history, completed>>
           ELSE LET out == process_text_message(heard, None, ner, gen)
                IN  /\ conversation_history' = out.history
                    /\ completed' = IF out.handled THEN completed
                                    ELSE completed + 1
                    /\ pipe' = [pc |-> "returned", result |-> out.result,
                                propagated |-> out.propagated,
                                handled |-> out.handled]
        /\ UNCHANGED <<kg_data, hash_seed, source, op, arg, ret, raised, prev>>
        /\ UNCHANGED <<callers, locals>>
        /\ UNCHANGED <<nlp, insights, web, voice, analytics>>

PipelineReads(result) ==
    /\ PipelineFree
    /\ pipe' = result
    /\ UNCHANGED <<kg_data, hash_seed, source, op, arg, ret, raised, prev>>
    /\ UNCHANGED <<callers, locals, conversation_history>>
    /\ UNCHANGED <<nlp, completed, insights, web, voice, analytics>>

GetConversationSummary ==
    \E gen \in GenOutcomes :
        PipelineReads(ReadFrame("get_conversation_summary",
                                get_conversation_summary(gen)))

DetectLearningGaps ==
    \E gen \in GenOutcomes :
        PipelineReads(ReadFrame("detect_learning_gaps",
                                detect_learning_gaps(gen)))

\* the questions and the recogniser outcomes of the reading operations
ReadQuestions == {Str(sEinstein), None}

ReadNerOutcomes ==
    {[kind |-> "unavailable"], [kind |-> "entities", val |-> <<sEinstein>>]}

AnalyzeQuestion ==
    \E question \in ReadQuestions, ner \in ReadNerOutcomes,
       gen \in {"unconfigured", "text"} :
        PipelineReads(ReadFrame("analyze_question",
                                analyze_question(question, ner, gen)))

GetLearningRecommendations ==
    \E question \in ReadQuestions, ner \in ReadNerOutcomes,
       gen \in {"text"} :
        PipelineReads(ReadFrame("get_learning_recommendations",
                                get_learning_recommendations(question, ner, gen)))

\* the caller takes the value of a reading operation
ReadTake ==
    /\ pipe.pc = "read"
    /\ pipe' = PipeIdle
    /\ UNCHANGED <<kg_data, hash_seed, source, op, arg, ret, raised, prev>>
    /\ UNCHANGED <<callers, locals, conversation_history>>
    /\ UNCHANGED <<nlp, completed, insights, web, voice, analytics>>

(***************************************************************************)
(* get_session_insights: the value of 'learning_recommendations' is        *)
(* _generate_session_recommendations(), whose first statement calls        *)
(* get_session_insights again.  insights.depth counts the calls of         *)
(* get_session_insights on the stack.                                      *)
(***************************************************************************)
InsightsFrame ==
    /\ UNCHANGED <<kg_data, hash_seed, source, op, arg, ret, raised, prev>>
    /\ UNCHANGED <<callers, locals, conversation_history, pipe>>
    /\ UNCHANGED <<nlp, completed, web, voice, analytics>>

\* the caller of the pipeline calls get_session_insights
GetSessionInsights ==
    /\ PipelineFree
    /\ insights' = [pc |-> "running", depth |-> 1, exhausted |-> FALSE]
    /\ InsightsFrame

\* the dictionary display reaches 'learning_recommendations':
\* _generate_session_recommendations calls get_session_insights
InsightsReenter ==
    /\ insights.pc = "running"
    /\ insights.depth < RecursionLimit
    /\ insights' = [insights EXCEPT !.depth = @ + 1]
    /\ InsightsFrame

\* the interpreter refuses a deeper frame and raises RecursionError; the
\* except clause of the innermost call returns {}, or, when its print has no
\* room on the stack either, the except clause of the call around it does
InsightsOverflow ==
    /\ insights.pc = "running"
    /\ insights.depth = RecursionLimit
    /\ \E level \in {insights.depth - 1, insights.depth} :
           /\ level >= 1
           /\ insights' = [pc |-> "unwinding", depth |-> level - 1,
                           exhausted |-> TRUE]
    /\ InsightsFrame

\* _generate_session_recommendations gets the dictionary of the inner call
\* and returns its list; the call around it returns its dictionary
InsightsUnwind ==
    /\ insights.pc = "unwinding"
    /\ insights.depth > 1
    /\ insights' = [insights EXCEPT !.depth = @ - 1]
    /\ InsightsFrame

\* the outermost call returns: its dictionary, or {} from its own handler
InsightsReturn ==
    /\ insights.pc = "unwinding"
    /\ insights.depth <= 1
    /\ insights' = [pc |-> "returned", depth |-> 0,
                    exhausted |-> insights.exhausted,
                    result |-> IF insights.depth = 0 THEN EmptyDict
                               ELSE [kind |-> "dict", empty |-> FALSE,
                                     total_interactions |->
                                         Len(conversation_history),
                                     learning_recommendations |-> <<>>]]
    /\ InsightsFrame

\* the caller takes the dictionary
InsightsTake ==
    /\ insights.pc = "returned"
    /\ insights' = InsightsIdle
    /\ InsightsFrame

NextPipeline ==
    \/ ProcessTextMessage
    \/ PipeTake
    \/ GenerateResponse
    \/ NlpTake
    \/ Run
    \/ GetConversationSummary
    \/ DetectLearningGaps
    \/ AnalyzeQuestion
    \/ GetLearningRecommendations
    \/ ReadTake
    \/ GetSessionInsights
    \/ InsightsReenter
    \/ InsightsOverflow
    \/ InsightsUnwind
    \/ InsightsReturn
    \/ InsightsTake

SpecPipeline == InitPipeline /\ [][NextPipeline]_vars

(***************************************************************************)
(* StudentAnalytics.  analytics.sessions is the dict of the sessions (a    *)
(* function on the session ids seen), analytics.interactions the global    *)
(* list.  analytics.calls lists the tracking calls made, and               *)
(* analytics.returned the outcome of the last call.                        *)
(***************************************************************************)
\* the session_id arguments: None, '', two ids, and an unhashable value
SessionIds ==
    {None, Str(<<>>), Str(<<"s">>), Str(<<"t">>), [kind |-> "list"]}

\* the user_message arguments: a text, and a value without a length
AnalyticsMessages == {Str(<<"h", "i">>), Num(5)}

\* `if session_id:`
TruthySession(session_id) ==
    CASE session_id.kind = "None" -> FALSE
      [] session_id.kind = "str" -> session_id.val # <<>>
      [] session_id.kind = "list" -> TRUE

\* whether the value can be a dict key
Hashable(session_id) == session_id.kind # "list"

\* whether len(user_message) is defined
HasLen(user_message) == user_message.kind = "str"

\* as if the interaction were inserted at the front of the session's list
SessionsAddFront(sessions, session_id, interaction, now) ==
    LET known == IF session_id \in DOMAIN sessions THEN sessions
                 ELSE sessions @@ (session_id :>
                          [start_time |-> now, interactions |-> <<>>])
    IN  [known EXCEPT ![session_id].interactions = <<interaction>> \o @]

\* lines 26-31: the session is created on its first interaction, and the
\* interaction is appended to its list
SessionsAdd(sessions, session_id, interaction, now) ==
    LET known == IF session_id \in DOMAIN sessions THEN sessions
                 ELSE sessions @@ (session_id :>
                          [start_time |-> now, interactions |-> <<>>])
    IN  [known EXCEPT ![session_id].interactions = Append(@, interaction)]

\* StudentAnalytics.track_interaction at clock reading now: the exception it
\* ends with ("" for none) and the structures it leaves
track_interaction(a, now, user_message, assistant_response, session_id) ==
    IF ~HasLen(user_message) THEN [raised |-> "TypeError", analytics |-> a]
    ELSE LET interaction == [session_id |-> session_id,
                             timestamp |-> now,
                             user_message |-> user_message,
                             assistant_response |-> assistant_response,
                             message_length |-> Len(user_message.val)]
             appended == [a EXCEPT !.interactions = Append(@, interaction)]
         IN  IF ~TruthySession(session_id)
             THEN [raised |-> "", analytics |-> appended]
             ELSE IF ~Hashable(session_id)
             THEN [raised |-> "TypeError", analytics |-> appended]
             ELSE [raised |-> "",
                   analytics |->
                       [appended EXCEPT !.sessions =
                            SessionsAdd(@, session_id, interaction, now)]]

\* StudentAnalytics.track_voice_interaction
track_voice_interaction(a, now, transcription, response, session_id) ==
    track_interaction(a, now, transcription, response, session_id)

RECURSIVE SumLengths(_, _)
\* sum(i['message_length'] for i in interactions)
SumLengths(interactions, i) ==
    IF i > Len(interactions) THEN 0
    ELSE interactions[i].message_length + SumLengths(interactions, i + 1)

\* StudentAnalytics.get_session_analytics
get_session_analytics(a, session_id) ==
    IF ~Hashable(session_id) THEN [raised |-> "TypeError", value |-> None]
    ELSE IF session_id \notin DOMAIN a.sessions
    THEN [raised |-> "", value |-> [error |-> "Session not found"]]
    ELSE LET session == a.sessions[session_id]
             interactions == session.interactions
         IN  [raised |-> "",
              value |-> [session_id |-> session_id,
                         total_interactions |-> Len(interactions),
                         start_time |-> session.start_time,
                         average_message_length |->
                             IF interactions # <<>>
                             THEN TrueDiv(SumLengths(interactions, 1),
                                          Len(interactions))
                             ELSE IntZero]]

\* StudentAnalytics.get_general_analytics
get_general_analytics(a) ==
    LET total_sessions == Cardinality(DOMAIN a.sessions)
        total_interactions == Len(a.interactions)
    IN  [raised |-> "",
         value |-> [total_sessions |-> total_sessions,
                    total_interactions |-> total_interactions,
                    average_interactions_per_session |->
                        IF total_sessions > 0
                        THEN TrueDiv(total_interactions, total_sessions)
                        ELSE IntZero]]

\* the clock reading of the next tracking call
Now(a) == Len(a.calls) + 1

\* the structures after a tracking call, with the call noted
Tracked(a, call, user_message, assistant_response, session_id) ==
    LET out == IF call = "track_voice_interaction"
               THEN track_voice_interaction(a, Now(a), user_message,
                                            assistant_response, session_id)
               ELSE track_interaction(a, Now(a), user_message,
                                      assistant_response, session_id)
    IN  [out.analytics EXCEPT
             !.calls = Append(@, [user_message |-> user_message,
                                  session_id |-> session_id,
                                  timestamp |-> Now(a)]),
             !.returned = [op |-> call, raised |-> out.raised]]

\* the knowledge graph and the pipeline as they are after construction from
\* the source src, no call running
ComponentsStart(src) ==
    /\ source = src
    /\ kg_data = Load(source)
    /\ hash_seed \in HashSeeds
    /\ op = "idle"
    /\ arg = <<>>
    /\ ret = <<>>
    /\ raised = ""
    /\ prev = NoPrev
    /\ callers = [c \in CallerIds |-> IdleFrame]
    /\ locals = [slot \in CallerIds \X Operations |-> AccInit(slot[2])]
    /\ conversation_history = <<>>
    /\ pipe = PipeIdle

InitAnalytics ==
    /\ ComponentsStart([kind |-> "missing"])
    /\ OthersAtStart

AnalyticsFrame ==
    /\ UNCHANGED <<kg_data, hash_seed, source, op, arg, ret, raised, prev>>
    /\ UNCHANGED <<callers, locals, conversation_history, pipe>>
    /\ UNCHANGED <<nlp, completed, insights, web, voice>>

TrackInteraction ==
    \E user_message \in AnalyticsMessages, session_id \in SessionIds :
        /\ Len(analytics.calls) < MaxInteractions
        /\ analytics' = Tracked(analytics, "track_interaction", user_message,
                                "answer", session_id)
        /\ AnalyticsFrame

TrackVoiceInteraction ==
    \E transcription \in AnalyticsMessages, session_id \in SessionIds :
        /\ Len(analytics.calls) < MaxInteractions
        /\ analytics' = Tracked(analytics, "track_voice_interaction",
                                transcription, "answer", session_id)
        /\ AnalyticsFrame

GetSessionAnalytics ==
    \E session_id \in SessionIds :
        LET out == get_session_analytics(analytics, session_id)
        IN  /\ analytics' = [analytics EXCEPT
                                 !.returned = [op |-> "get_session_analytics",
                                               raised |-> out.raised,
                                               value |-> out.value]]
            /\ AnalyticsFrame

GetGeneralAnalytics ==
    LET out == get_general_analytics(analytics)
    IN  /\ analytics' = [analytics EXCEPT
                             !.returned = [op |-> "get_general_analytics",
                                           raised |-> out.raised,
                                           value |-> out.value]]
        /\ AnalyticsFrame

NextAnalytics ==
    \/ TrackInteraction
    \/ TrackVoiceInteraction
    \/ GetSessionAnalytics
    \/ GetGeneralAnalytics

SpecAnalytics == InitAnalytics /\ [][NextAnalytics]_vars

(***************************************************************************)
(* The web application: /api/chat.  Flask serves each request on a thread  *)
(* of its own; the handler's accesses to the module's conversation_history *)
(* are separate steps.  web.requests[r].position is the index at which     *)
(* request r appended its entry.                                           *)
(***************************************************************************)
\* request.json: no JSON body, or an object with 'message' and 'session_id'
ChatBodies ==
    {[kind |-> "none"]}
    \cup {[kind |-> "json", message |-> m, session_id |-> sid] :
              m \in {Str(<<>>), Str(sEinstein), Num(5)},
              sid \in {None, Str(<<"s">>)}}

\* lines 53-57: the update of student_session
SessionUpdate(student_session, session_id) ==
    IF TruthySession(session_id)
    THEN [session_id |-> session_id, started |-> TRUE,
          questions_asked |-> student_session.questions_asked + 1]
    ELSE student_session

WebFrame ==
    /\ UNCHANGED <<kg_data, hash_seed, source, op, arg, ret, raised, prev>>
    /\ UNCHANGED <<callers, locals, pipe>>
    /\ UNCHANGED <<nlp, insights, voice>>

\* lines 44-57: the body is read and checked, the session is updated
ChatReceive(r) ==
    \E body \in ChatBodies :
        /\ web.requests[r].pc = "new"
        /\ web' =
             IF body.kind = "none"
             THEN [web EXCEPT !.requests[r].pc = "done",
                              !.requests[r].status = 500]
             ELSE IF ~TruthyText(body.message)
             THEN [web EXCEPT !.requests[r].pc = "done",
                              !.requests[r].body = body,
                              !.requests[r].status = 400]
             ELSE [web EXCEPT !.requests[r].pc = "received",
                              !.requests[r].body = body,
                              !.student_session =
                                  SessionUpdate(@, body.session_id)]
        /\ UNCHANGED <<conversation_history, completed, analytics>>
        /\ WebFrame

\* line 60: response = assistant.process_text_message(user_message)
ChatProcess(r) ==
    \E gen \in {"text", "raises"} :
        /\ web.requests[r].pc = "received"
        /\ LET out == process_text_message(web.requests[r].body.message, None,
                                           [kind |-> "unavailable"], gen)
           IN  /\ conversation_history' = out.history
               /\ completed' = IF out.handled THEN completed
                               ELSE completed + 1
               /\ web' = [web EXCEPT !.requests[r].pc = "processed",
                                     !.requests[r].response = out.result.val]
        /\ UNCHANGED analytics
        /\ WebFrame

\* lines 63-68: conversation_history.append({...})
ChatAppend(r) ==
    /\ web.requests[r].pc = "processed"
    /\ web' = [web EXCEPT
                 !.conversation_history =
                     Append(@, [user |-> web.requests[r].body.message,
                                assistant |-> web.requests[r].response]),
                 !.requests[r].position = Len(web.conversation_history) + 1,
                 !.requests[r].pc = "appended"]
    /\ UNCHANGED <<conversation_history, completed, analytics>>
    /\ WebFrame

\* line 71: analytics.track_interaction(...); its exception ends the request
\* with status 500, after the entry was appended
ChatTrack(r) ==
    /\ web.requests[r].pc = "appended"
    /\ LET after == Tracked(analytics, "track_interaction",
                            web.requests[r].body.message,
                            web.requests[r].response,
                            web.requests[r].body.session_id)
       IN  /\ analytics' = after
           /\ web' = IF after.returned.raised # ""
                     THEN [web EXCEPT !.requests[r].pc = "done",
                                      !.requests[r].status = 500]
                     ELSE [web EXCEPT !.requests[r].pc = "tracked"]
    /\ UNCHANGED <<conversation_history, completed>>
    /\ WebFrame

\* lines 73-76: the response carries len(conversation_history)
ChatRespond(r) ==
    /\ web.requests[r].pc = "tracked"
    /\ web' = [web EXCEPT
                 !.requests[r].pc = "done",
                 !.requests[r].status = 200,
                 !.requests[r].conversation_id = Len(web.conversation_history)]
    /\ UNCHANGED <<conversation_history, completed, analytics>>
    /\ WebFrame

InitWeb ==
    /\ ComponentsStart([kind |-> "records",
                        records |-> <<RecEinstein, RecRelativity>>])
    /\ OthersAtStart

NextWeb ==
    \E r \in RequestIds :
        \/ ChatReceive(r)
        \/ ChatProcess(r)
        \/ ChatAppend(r)
        \/ ChatTrack(r)
        \/ ChatRespond(r)

SpecWeb == InitWeb /\ [][NextWeb]_vars

(***************************************************************************)
(* VoiceInterface.  start_recording and stop_recording are called from the *)
(* request threads of the web application and run statement by statement;  *)
(* _record_audio runs on the thread start_recording creates.  A thread is  *)
(* "unborn", "created" (Thread object made, not started), "running" or     *)
(* "ended"; audio_frames holds, for each chunk, the thread that read it.   *)
(***************************************************************************)
\* the recording threads that are alive
Alive == {t \in ThreadIds : voice.threads[t] = "running"}

Unborn == {t \in ThreadIds : voice.threads[t] = "unborn"}

\* the callers inside start_recording, past its check
Starting ==
    {c \in VoiceCallers :
         voice.callers[c].pc \in {"start_set", "start_clear", "start_thread",
                                  "start_go"}}

VoiceFrame ==
    /\ UNCHANGED <<kg_data, hash_seed, source, op, arg, ret, raised, prev>>
    /\ UNCHANGED <<callers, locals, conversation_history, pipe>>
    /\ UNCHANGED <<nlp, completed, insights, web, analytics>>

\* the caller's frame after its call returned
VoiceReturned(call, exc, is_recording, alive) ==
    [pc |-> "idle", target |-> 0,
     last |-> [call |-> call, raised |-> exc, is_recording |-> is_recording,
               alive |-> alive]]

\* start_recording, lines 31-33: if self.is_recording: return
StartCheck(c) ==
    /\ voice.callers[c].pc = "idle"
    /\ Cardinality(Unborn) > Cardinality(Starting)
    /\ voice' =
         IF voice.is_recording
         THEN [voice EXCEPT !.callers[c] =
                   VoiceReturned("start_refused", "", voice.is_recording,
                                 Alive)]
         ELSE [voice EXCEPT !.callers[c].pc = "start_set"]
    /\ VoiceFrame

\* line 35: self.is_recording = True
StartSet(c) ==
    /\ voice.callers[c].pc = "start_set"
    /\ voice' = [voice EXCEPT !.is_recording = TRUE,
                              !.callers[c].pc = "start_clear"]
    /\ VoiceFrame

\* line 36: self.audio_frames = []
StartClear(c) ==
    /\ voice.callers[c].pc = "start_clear"
    /\ voice' = [voice EXCEPT !.audio_frames = <<>>,
                              !.callers[c].pc = "start_thread"]
    /\ VoiceFrame

\* line 40: self.recording_thread = threading.Thread(target=...)
StartThread(c) ==
    /\ voice.callers[c].pc = "start_thread"
    /\ \E t \in Unborn :
           /\ \A u \in Unborn : t <= u
           /\ voice' = [voice EXCEPT !.recording_thread = t,
                                     !.threads[t] = "created",
                                     !.callers[c].pc = "start_go",
                                     !.callers[c].target = t]
    /\ VoiceFrame

\* line 41: self.recording_thread.start(), on whatever thread the attribute
\* holds now; starting a thread a second time raises RuntimeError
StartGo(c) ==
    /\ voice.callers[c].pc = "start_go"
    /\ LET t == voice.recording_thread
       IN  voice' =
             IF voice.threads[t] = "created"
             THEN [voice EXCEPT
                     !.threads[t] = "running",
                     !.callers[c] =
                         VoiceReturned("start", "", voice.is_recording,
                                       Alive \cup {t})]
             ELSE [voice EXCEPT
                     !.callers[c] =
                         VoiceReturned("start", "RuntimeError",
                                       voice.is_recording, Alive)]
    /\ VoiceFrame

\* stop_recording, lines 47-49: if not self.is_recording: return None
StopCheck(c) ==
    /\ voice.callers[c].pc = "idle"
    /\ voice' =
         IF ~voice.is_recording
         THEN [voice EXCEPT !.callers[c] =
                   VoiceReturned("stop_refused", "", voice.is_recording,
                                 Alive)]
         ELSE [voice EXCEPT !.callers[c].pc = "stop_set"]
    /\ VoiceFrame

\* line 51: self.is_recording = False
StopSet(c) ==
    /\ voice.callers[c].pc = "stop_set"
    /\ voice' = [voice EXCEPT !.is_recording = FALSE,
                              !.callers[c].pc = "stop_join"]
    /\ VoiceFrame

\* lines 53-54: if self.recording_thread: self.recording_thread.join();
\* joining a thread that was not started raises RuntimeError
StopJoin(c) ==
    /\ voice.callers[c].pc = "stop_join"
    /\ LET t == voice.recording_thread
       IN  voice' =
             IF t = 0
             THEN [voice EXCEPT !.callers[c].pc = "stop_return"]
             ELSE IF voice.threads[t] = "created"
             THEN [voice EXCEPT
                     !.callers[c] =
                         VoiceReturned("stop", "RuntimeError",
                                       voice.is_recording, Alive)]
             ELSE [voice EXCEPT !.callers[c].pc = "stop_joining",
                                !.callers[c].target = t]
    /\ VoiceFrame

\* join() returns once the joined thread has ended
StopJoined(c) ==
    /\ voice.callers[c].pc = "stop_joining"
    /\ voice.threads[voice.callers[c].target] = "ended"
    /\ voice' = [voice EXCEPT !.callers[c].pc = "stop_return"]
    /\ VoiceFrame

\* lines 56-63: the frames are joined and returned (None without frames)
StopReturn(c) ==
    /\ voice.callers[c].pc = "stop_return"
    /\ voice' = [voice EXCEPT !.callers[c] =
                     VoiceReturned("stop", "", voice.is_recording, Alive)]
    /\ VoiceFrame

\* _record_audio, lines 79-82: while self.is_recording: read a chunk and
\* append it
RecordChunk(t) ==
    /\ voice.threads[t] = "running"
    /\ voice.is_recording
    /\ Len(voice.audio_frames) < MaxFrames
    /\ voice' = [voice EXCEPT !.audio_frames = Append(@, t)]
    /\ VoiceFrame

\* _record_audio ends: is_recording is false at the loop test, or the
\* silence threshold is reached, or the stream cannot be opened or read
RecordEnds(t) ==
    /\ voice.threads[t] = "running"
    /\ voice' = [voice EXCEPT !.threads[t] = "ended"]
    /\ VoiceFrame

InitVoice ==
    /\ ComponentsStart([kind |-> "missing"])
    /\ OthersAtStart

NextVoice ==
    \/ \E c \in VoiceCallers :
           \/ StartCheck(c)
           \/ StartSet(c)
           \/ StartClear(c)
           \/ StartThread(c)
           \/ StartGo(c)
           \/ StopCheck(c)
           \/ StopSet(c)
           \/ StopJoin(c)
           \/ StopJoined(c)
           \/ StopReturn(c)
    \/ \E t \in ThreadIds :
           \/ RecordChunk(t)
           \/ RecordEnds(t)

SpecVoice == InitVoice /\ [][NextVoice]_vars




(***************************************************************************)
(* Claims about search_knowledge                                           *)
(***************************************************************************)
Searched == op = "search_knowledge"

\* the records of the store with a positive score for the query of the call
PositiveItems ==
    {i \in 1..Len(kg_data) : RelevanceScore(Lower(arg), kg_data[i]) > 0}

\* C1: search_knowledge returns at most 5 results, ordered by non-increasing
\* relevance_score; the first result's score is >= every other result's.
C1_AtMostFiveSortedDescending ==
    Searched =>
        /\ Len(ret) <= 5
        /\ \A i, j \in 1..Len(ret) :
              i < j => ret[i].relevance_score >= ret[j].relevance_score
        /\ \A j \in 1..Len(ret) :
              ret[1].relevance_score >= ret[j].relevance_score

\* more than 5 records score, 5 are returned, and their scores differ
C1_Witness ==
    /\ Searched
    /\ Cardinality(PositiveItems) > 5
    /\ Len(ret) = 5
    /\ ret[1].relevance_score > ret[5].relevance_score

BoolToInt(b) == IF b THEN 1 ELSE 0

\* the score the contract gives a record for a query, field by field
ContractScore(query, item) ==
    LET q == Lower(query)
        aliases == Get(item, "aliases", <<>>)
        props == Get(item, "properties", <<>>)
    IN  3 * BoolToInt(Contains(q, Lower(Get(item, "entity", <<>>))))
        + 2 * Cardinality({a \in 1..Len(aliases) : Contains(q, Lower(aliases[a]))})
        + BoolToInt(Contains(q, Lower(Get(item, "summary", <<>>))))
        + BoolToInt(Contains(q, Lower(Get(item, "description", <<>>))))
        + Cardinality({p \in 1..Len(props) :
                          props[p].kind = "str" /\ Contains(q, Lower(props[p].val))})
        + Cardinality(UNION {{<<p, e>> : e \in
                                {x \in 1..Len(props[p].val) :
                                    Contains(q, Lower(props[p].val[x]))}} :
                             p \in {y \in 1..Len(props) : props[y].kind = "list"}})

\* C2: every returned record's relevance_score is 3 for a name match, plus 2
\* per matching alias, plus 1 each for summary and description, plus 1 per
\* matching string property and per matching element of a list property; the
\* record "Photosynthesis" (S1, D1, no alias) scores 3 for "photosynthesis".
C2_ScoreIsContractScore ==
    Searched =>
        /\ \A k \in 1..Len(ret) :
              ret[k].relevance_score = ContractScore(arg, ret[k].item)
        /\ (arg = sQueryPhoto /\ kg_data = <<RecPhotosynthesis>>)
              => ret = << [item |-> RecPhotosynthesis, relevance_score |-> 3] >>

\* a record scored on its name, two aliases, its text and its properties
C2_Witness ==
    /\ Searched
    /\ \E k \in 1..Len(ret) :
          /\ ret[k].item = RecAb
          /\ ret[k].relevance_score = 10

\* no name, alias, summary, description or property value contains the query
NoFieldContains(query) ==
    LET q == Lower(query)
    IN  \A i \in 1..Len(kg_data) :
          LET item == kg_data[i]
              aliases == Get(item, "aliases", <<>>)
              props == Get(item, "properties", <<>>)
          IN  /\ ~Contains(q, Lower(Get(item, "entity", <<>>)))
              /\ \A a \in 1..Len(aliases) : ~Contains(q, Lower(aliases[a]))
              /\ ~Contains(q, Lower(Get(item, "summary", <<>>)))
              /\ ~Contains(q, Lower(Get(item, "description", <<>>)))
              /\ \A p \in 1..Len(props) :
                    /\ props[p].kind = "str" => ~Contains(q, Lower(props[p].val))
                    /\ props[p].kind = "list" =>
                          \A x \in 1..Len(props[p].val) :
                             ~Contains(q, Lower(props[p].val[x]))

\* C3: every returned result has relevance_score >= 1, and the result is
\* empty when no field of any record contains the query.
C3_NoZeroScoreResult ==
    Searched =>
        /\ \A k \in 1..Len(ret) : ret[k].relevance_score >= 1
        /\ NoFieldContains(arg) => ret = <<>>

\* a record of the store scores 0 and is left out while another is returned
C3_Witness ==
    /\ Searched
    /\ ret # <<>>
    /\ Len(kg_data) <= 5
    /\ \E i \in 1..Len(kg_data) :
          /\ i \notin PositiveItems
          /\ \A k \in 1..Len(ret) : ret[k].item # kg_data[i]

(***************************************************************************)
(* Claims about _entity_matches                                            *)
(***************************************************************************)
Matched == op = "_entity_matches"

DirectMatch(q, r) == Contains(q, r) \/ Contains(r, q)

AliasMatch(q, item) ==
    \E a \in Range(Get(item, "aliases", <<>>)) :
        Contains(q, Lower(a)) \/ Contains(Lower(a), q)

TokenMatch(q, r) ==
    \/ q \in Range(Split(r))
    \/ \E t \in Range(Split(r)) : Contains(t, q)

\* C4: _entity_matches(q, r) is true iff, on lower-cased text, q contains
\* r.entity or r.entity contains q, or an alias contains q or is contained in
\* q, or q equals a token of r.entity or a token is a substring of q.
C4_MatchesIffRule ==
    Matched =>
        (ret <=> LET q == Lower(arg.entity)
                     r == Lower(Get(arg.kg_item, "entity", <<>>))
                 IN  \/ DirectMatch(q, r)
                     \/ AliasMatch(q, arg.kg_item)
                     \/ TokenMatch(q, r))

\* a match made by the token rule alone
C4_Witness ==
    /\ Matched
    /\ ret = TRUE
    /\ LET q == Lower(arg.entity)
           r == Lower(Get(arg.kg_item, "entity", <<>>))
       IN  /\ ~DirectMatch(q, r)
           /\ ~AliasMatch(q, arg.kg_item)
           /\ TokenMatch(q, r)


(***************************************************************************)
(* Claims about query_knowledge_base and get_related_topics read the match *)
(* relation of the call: which candidates of arg match which records.      *)
(***************************************************************************)
\* the positions of the candidate entities that match record i of the store
MatchingCandidates(i) ==
    SelectSeq([j \in 1..Len(arg) |-> j],
              LAMBDA j : entity_matches(arg[j], kg_data[i]))

\* for every record of the store, the candidates that match it
MatchTable == [i \in 1..Len(kg_data) |-> MatchingCandidates(i)]

\* the records matched by at least one candidate, in store order
MatchedSeq(table) ==
    SelectSeq([i \in 1..Len(table) |-> i], LAMBDA i : table[i] # <<>>)

Count(x, s) == Cardinality({k \in 1..Len(s) : s[k] = x})

(***************************************************************************)
(* Claims about query_knowledge_base                                       *)
(***************************************************************************)
Queried == op = "query_knowledge_base"

\* the context is made of the strings of the contributing records
ContextIsOfHits ==
    ret.value = IF ret.hits = <<>> THEN None
                ELSE Str(JoinSp([k \in 1..Len(ret.hits) |->
                                   ResultText(kg_data[ret.hits[k]])]))

\* the different candidate entities that match record i
DifferentMatching(i) ==
    LET js == MatchingCandidates(i) IN {arg[js[k]] : k \in 1..Len(js)}

\* C5 as stated: a record matched by k different candidate entities
\* contributes its summary/description string k times to the returned context.
C5_OncePerMatch ==
    Queried =>
        \A i \in 1..Len(kg_data) :
            Count(i, ret.hits) = Cardinality(DifferentMatching(i))

\* C5 as amended: a record matched by k >= 1 candidate entities contributes
\* its summary/description string exactly once, whatever k is, and a record
\* matched by none contributes nothing.
C5_OncePerRecord ==
    Queried =>
        /\ ContextIsOfHits
        /\ \A i \in 1..Len(kg_data) :
              Count(i, ret.hits) = IF MatchingCandidates(i) # <<>> THEN 1 ELSE 0

\* a record matched by two different candidates is in the context once
C5_Witness ==
    /\ Queried
    /\ ret.value # None
    /\ \E i \in 1..Len(kg_data) :
          /\ Cardinality(DifferentMatching(i)) = 2
          /\ Count(i, ret.hits) = 1

\* summary, one space, description
ContractText(item) ==
    Get(item, "summary", <<>>) \o <<" ">> \o Get(item, "description", <<>>)

\* the store indices matched by an entity, ascending
MatchesOf(entity) ==
    SelectSeq([i \in 1..Len(kg_data) |-> i],
              LAMBDA i : entity_matches(entity, kg_data[i]))

\* C6 as stated: the context lists the per-record strings in candidate-entity
\* encounter order: for each candidate in input order, the strings of the
\* records it matches in store order, joined by single spaces.  Stated for
\* the calls in which no record is matched by two candidates, where the
\* number of times a record contributes (C5) is not in question.
C6_EntityEncounterOrder ==
    (Queried /\ ret.value # None) =>
        LET perEntity == [j \in 1..Len(arg) |-> MatchesOf(arg[j])]
            encounter == Flatten(perEntity)
        IN  (\A i \in 1..Len(kg_data) : Count(i, encounter) <= 1) =>
                ret.value.val =
                    JoinSp([k \in 1..Len(encounter) |->
                               ContractText(kg_data[encounter[k]])])

\* C6 as amended: the context lists, in store order, the string of every
\* record matched by at least one candidate, each once; each string is the
\* summary, one space and the description, and they are joined by one space.
C6_StoreOrder ==
    (Queried /\ ret.value # None) =>
        LET matched == MatchedSeq(MatchTable)
        IN  ret.value.val =
                JoinSp([k \in 1..Len(matched) |-> ContractText(kg_data[matched[k]])])

\* the first candidate matches only a later record than the second does, the
\* two records have different strings, and the context is in store order
C6_Witness ==
    /\ Queried
    /\ ret.value # None
    /\ Len(arg) = 2
    /\ \E i1, i2 \in 1..Len(kg_data) :
          /\ i2 < i1
          /\ MatchingCandidates(i1) = <<1>>
          /\ MatchingCandidates(i2) = <<2>>
          /\ ContractText(kg_data[i1]) # ContractText(kg_data[i2])
          /\ ret.hits = <<i2, i1>>

\* C7: query_knowledge_base returns None when the entity list is empty and
\* when the store is non-empty but no candidate matches any record; it
\* returns a string exactly when some record is matched by some candidate.
C7_NoneUnlessMatched ==
    Queried =>
        LET someMatch == \E i \in 1..Len(kg_data) : MatchingCandidates(i) # <<>>
        IN  /\ arg = <<>> => ret.value = None
            /\ (kg_data # <<>> /\ ~someMatch) => ret.value = None
            /\ ret.value # None <=> someMatch
            /\ ret.value = None \/ ret.value.kind = "str"

\* candidates are given, the store is not empty, nothing matches: None
C7_Witness ==
    /\ Queried
    /\ arg # <<>>
    /\ kg_data # <<>>
    /\ \A i \in 1..Len(kg_data) : MatchingCandidates(i) = <<>>
    /\ ret.value = None

(***************************************************************************)
(* Claims about get_related_topics                                         *)
(***************************************************************************)
Related == op = "get_related_topics"

\* the target_ids on the relationship edges of a record
TargetsOf(item) ==
    LET edges == Get(item, "relationships", <<>>)
        withTarget == SelectSeq(edges, LAMBDA e : "target_id" \in DOMAIN e)
    IN  [k \in 1..Len(withTarget) |-> withTarget[k].target_id]

\* the target_ids on the relationship edges of the matched records
MatchedTargets(matched) ==
    Flatten([k \in 1..Len(matched) |-> TargetsOf(kg_data[matched[k]])])

\* the records of the store that an edge of a matched record points to by id
ResolvedItems(targets) ==
    SelectSeq([i \in 1..Len(kg_data) |-> i],
              LAMBDA i : \E t \in 1..Len(targets) : targets[t] = kg_data[i].id)

\* the names of those records
ResolvableNames ==
    LET resolved == ResolvedItems(MatchedTargets(MatchedSeq(MatchTable)))
    IN  {kg_data[resolved[k]].entity : k \in 1..Len(resolved)}

\* C8: every name returned by get_related_topics is the entity name of a
\* record of the store whose id is the target_id of an edge of a matched
\* record; an edge that resolves to no record contributes nothing: with
\* {e1 Einstein -> e2, e2 Relativity}, ["Einstein"] gives ["Relativity"],
\* and [] once e2 is removed.
C8_OnlyResolvedTargets ==
    Related =>
        /\ ret # <<>> => LET names == ResolvableNames
                         IN  \A k \in 1..Len(ret) : ret[k] \in names
        /\ (arg = <<sEinstein>> /\ kg_data = <<RecEinstein, RecRelativity>>)
              => ret = <<sRelativity>>
        /\ (arg = <<sEinstein>> /\ kg_data = <<RecEinstein>>) => ret = <<>>

\* a matched record has an edge to an id that no record of the store has,
\* and the call returns the names its other edges resolve to
C8_Witness ==
    /\ Related
    /\ ret # <<>>
    /\ LET targets == MatchedTargets(MatchedSeq(MatchTable))
       IN  \E t \in 1..Len(targets) :
              \A i \in 1..Len(kg_data) : kg_data[i].id # targets[t]

\* C9: when the matched records have at most 10 distinct resolvable target
\* names, get_related_topics returns the name of every record reached by an
\* edge of a matched record whose target_id is the id of a record of the
\* store.
C9_EveryResolvableTarget ==
    Related =>
        LET names == ResolvableNames
        IN  Cardinality(names) <= 10 =>
                \A name \in names : \E k \in 1..Len(ret) : ret[k] = name

\* ten distinct names are reachable from the matched records, over edges of
\* more than one record, and all ten are returned
C9_Witness ==
    /\ Related
    /\ Cardinality(ResolvableNames) = 10
    /\ Len(MatchedSeq(MatchTable)) > 1
    /\ Len(ret) = 10

\* C10: the result of get_related_topics has at most 10 names and no name
\* twice.
C10_AtMostTenDistinct ==
    Related =>
        /\ Len(ret) <= 10
        /\ \A i, j \in 1..Len(ret) : i # j => ret[i] # ret[j]

\* more than 10 distinct names are reachable, one of them over two edges,
\* and 10 are returned
C10_Witness ==
    /\ Related
    /\ Cardinality(ResolvableNames) > 10
    /\ Len(TopicAdds(arg)) > Cardinality(ResolvableNames)
    /\ Len(ret) = 10

(***************************************************************************)
(* Claims about get_related_content                                        *)
(***************************************************************************)
Content == op = "get_related_content"

\* C11: for every store and entity list, the result of get_related_content
\* has at most 10 items.
C11_ContentAtMostTen ==
    Content => Len(ret) <= 10

\* a call that built more than ten items and returned ten of them
C11_Witness ==
    /\ Content
    /\ Len(ContentAdds(arg)) > 10
    /\ Len(ret) = 10

\* the edges of a record whose target_id is the id of a record of the store
ResolvableEdges(item) ==
    SelectSeq(Get(item, "relationships", <<>>),
              LAMBDA e : /\ "target_id" \in DOMAIN e
                         /\ e.target_id # NoneId
                         /\ \E i \in 1..Len(kg_data) :
                                /\ "id" \in DOMAIN kg_data[i]
                                /\ kg_data[i].id = e.target_id)

\* the first record of the store with the id
RecordWithId(id) ==
    kg_data[Min({i \in 1..Len(kg_data) :
                    "id" \in DOMAIN kg_data[i] /\ kg_data[i].id = id})]

\* a field of a mapping, or None where the mapping has no such key
FieldOrNone(d, key) ==
    IF key \in DOMAIN d THEN [kind |-> "val", val |-> d[key]] ELSE None

\* the items the record at store index i contributes, each tagged with i:
\* one main_topic item, then one related_topic item per resolvable edge
OwnedItems(i) ==
    LET item == kg_data[i]
        edges == ResolvableEdges(item)
    IN  << [owner |-> i,
            item |-> [type |-> "main_topic",
                      entity |-> FieldOrNone(item, "entity"),
                      summary |-> FieldOrNone(item, "summary"),
                      description |-> FieldOrNone(item, "description")]] >>
        \o [k \in 1..Len(edges) |->
               [owner |-> i,
                item |-> [type |-> "related_topic",
                          entity |-> FieldOrNone(RecordWithId(edges[k].target_id), "entity"),
                          summary |-> FieldOrNone(RecordWithId(edges[k].target_id), "summary"),
                          relationship |-> FieldOrNone(edges[k], "relation_type"),
                          description |-> FieldOrNone(edges[k], "description")]]]

\* the whole sequence: entities in input order, matched records in store order
ContractContent(entities) ==
    Flatten([j \in 1..Len(entities) |->
        LET matched == MatchesOf(entities[j])
        IN  Flatten([m \in 1..Len(matched) |-> OwnedItems(matched[m])])])

\* C12: get_related_content returns the first 10 items of the sequence that
\* holds, for each input entity in order and each record it matches in store
\* order, one main_topic item of the record followed by one related_topic
\* item per resolvable edge in stored edge order, nothing removed as a
\* duplicate; so every related_topic item of the result comes after the
\* main_topic item of its owning record, and a non-empty result starts with
\* a main_topic item.
C12_FirstTenEntityMajor ==
    Content =>
        LET built == ContractContent(arg)
            kept == Take(built, 10)
        IN  /\ ret = [k \in 1..Len(kept) |-> kept[k].item]
            /\ \A k \in 1..Len(ret) :
                   ret[k].type = "related_topic" =>
                       \E m \in 1..(k - 1) :
                           /\ ret[m].type = "main_topic"
                           /\ \A n \in m..k : kept[n].owner = kept[k].owner
            /\ (ret # <<>> => ret[1].type = "main_topic")

\* two entities match different records, the later record first, and a
\* record is listed twice with its related_topic items
C12_Witness ==
    /\ Content
    /\ Len(arg) = 2
    /\ MatchesOf(arg[1]) # <<>>
    /\ MatchesOf(arg[2]) # <<>>
    /\ MatchesOf(arg[1])[1] > MatchesOf(arg[2])[1]
    /\ \E k \in 1..Len(ret) : ret[k].type = "related_topic"
    /\ \E k, m \in 1..Len(ret) : k # m /\ ret[k] = ret[m]

(***************************************************************************)
(* Claims about get_knowledge_graph_stats                                  *)
(***************************************************************************)
Stats == op = "get_knowledge_graph_stats"

\* C13: on an empty store get_knowledge_graph_stats returns a result that
\* has the average_relationships_per_entity field, equal to 0, together with
\* total_entities, entity_types and total_relationships, and no division
\* error occurs.
C13_EmptyStatsHasZeroAverage ==
    (Stats /\ kg_data = <<>>) =>
        /\ raised = ""
        /\ {"total_entities", "entity_types", "total_relationships",
            "average_relationships_per_entity"} \subseteq DOMAIN ret
        /\ ret.average_relationships_per_entity.num = 0

\* the number of records with the type, a typeless record having type "Unknown"
RecordsOfType(t) ==
    Cardinality({i \in 1..Len(kg_data) :
        IF "type" \in DOMAIN kg_data[i] THEN kg_data[i].type = t
                                        ELSE t = "Unknown"})

RECURSIVE SumOver(_, _)
\* the sum of f over the set S
SumOver(f, S) ==
    IF S = {} THEN 0
    ELSE LET x == CHOOSE y \in S : TRUE
         IN  f[x] + SumOver(f, S \ {x})

\* the number of edges stored on a record, whatever they point to
StoredEdges(item) ==
    IF "relationships" \in DOMAIN item THEN Len(item.relationships) ELSE 0

\* C14: on a non-empty store get_knowledge_graph_stats reports total_entities
\* equal to the number of records, entity_types counts that group the records
\* by type (a record without a type under "Unknown") and sum to
\* total_entities, and total_relationships equal to the sum over all records
\* of the number of their edges, resolvable or not.
C14_StatsCountRecordsAndEdges ==
    (Stats /\ kg_data # <<>>) =>
        /\ ret.total_entities = Len(kg_data)
        /\ \A t \in DOMAIN ret.entity_types :
               ret.entity_types[t] = RecordsOfType(t) /\ RecordsOfType(t) > 0
        /\ \A i \in 1..Len(kg_data) :
               Get(kg_data[i], "type", "Unknown") \in DOMAIN ret.entity_types
        /\ SumOver(ret.entity_types, DOMAIN ret.entity_types) = ret.total_entities
        /\ ret.total_relationships =
               SumOver([i \in 1..Len(kg_data) |-> StoredEdges(kg_data[i])],
                       1..Len(kg_data))

\* a store with two typeless records, a typed record, and edges that do not
\* resolve
C14_Witness ==
    /\ Stats
    /\ kg_data # <<>>
    /\ "Unknown" \in DOMAIN ret.entity_types
    /\ ret.entity_types["Unknown"] >= 2
    /\ DOMAIN ret.entity_types # {"Unknown"}
    /\ \E i \in 1..Len(kg_data) :
           \E e \in 1..StoredEdges(kg_data[i]) :
               LET edge == kg_data[i].relationships[e]
               IN  \/ "target_id" \notin DOMAIN edge
                   \/ \A n \in 1..Len(kg_data) : kg_data[n].id # edge.target_id

(***************************************************************************)
(* Claims about the operations taken together                              *)
(***************************************************************************)
QueryOps == Operations

C16_StoreNeverChanges ==
    [][kg_data' = kg_data]_vars

\* a search that scored and sorted two or more records has returned, and the
\* store is still what was loaded
C16_Witness ==
    /\ op = "search_knowledge"
    /\ Len(ret) >= 2
    /\ ret[1].item # kg_data[1]
    /\ kg_data = Load(source)

\* the result an operation gives when it has nothing to report
EmptyResultOf(o) ==
    CASE o = "query_knowledge_base" -> ret.value = None
      [] o = "search_knowledge" -> ret = <<>>
      [] o = "get_related_topics" -> ret = <<>>
      [] o = "get_related_content" -> ret = <<>>
      [] o = "get_entity_details" -> ret = None
      [] o = "get_knowledge_graph_stats" -> ret.total_entities = 0

\* C17: if the knowledge source is missing or malformed at load time, the
\* store is empty after construction, and every query operation returns its
\* empty result (query_knowledge_base None, search_knowledge [],
\* get_related_topics [], get_related_content [], get_entity_details None,
\* stats with zero entities) and none raises.
C17_BadSourceEmptyStore ==
    source.kind # "records" =>
        /\ kg_data = <<>>
        /\ op \in QueryOps => (raised = "" /\ EmptyResultOf(op))

\* the optional fields a record may lack
OptionalFields ==
    {"type", "aliases", "properties", "relationships", "summary", "description"}

\* an edge that names no record of the store: no target_id, or a dangling one
Unresolved(edge) ==
    \/ "target_id" \notin DOMAIN edge
    \/ \A n \in 1..Len(kg_data) : kg_data[n].id # edge.target_id

C19_ConcurrentCallsAsAlone ==
    \A c \in CallerIds :
        callers[c].pc = "done" =>
            callers[c].ret = ResultOf(callers[c].op, callers[c].arg)

\* one caller returns a non-empty result of an operation while the other is
\* in the middle of the loop of the same operation, with results of its own
C19_Witness ==
    \E c, d \in CallerIds :
        /\ c # d
        /\ callers[c].pc = "done"
        /\ callers[c].ret # EmptyResult(callers[c].op)
        /\ callers[d].pc = "loop"
        /\ callers[d].op = callers[c].op
        /\ callers[d].arg # callers[c].arg
        /\ callers[d].pos > 1
        /\ locals[<<d, callers[d].op>>] # AccInit(callers[d].op)

(***************************************************************************)
(* Claims about AssistantPipeline                                          *)
(***************************************************************************)
\* C20: process_text_message returns a string for every input and lets no
\* exception out; when an exception of entity extraction, retrieval or
\* generation reaches its handler, the call returns the fixed apology string
\* and leaves conversation_history as it was before the call.
C20_AlwaysAStringHandlerKeepsHistory ==
    [][(pipe.pc = "idle" /\ pipe'.pc = "returned") =>
          /\ pipe'.propagated = ""
          /\ pipe'.result.kind = "str"
          /\ pipe'.handled =>
                 /\ pipe'.result.val = Apology
                 /\ conversation_history' = conversation_history]_vars

\* a call that ended in the handler after an earlier call had been recorded
C20_Witness ==
    /\ pipe.pc = "returned"
    /\ pipe.handled
    /\ pipe.result = [kind |-> "str", val |-> Apology]
    /\ Len(conversation_history) = 1

(***************************************************************************)
(* Claims about the ranking and the cut of search_knowledge               *)
(***************************************************************************)
\* the position in the store of a record of the result
StoreIndex(item) == CHOOSE i \in 1..Len(kg_data) : kg_data[i] = item

\* the positions of the records that score for the query of the call; the
\* empty query is answered with the empty result and scores no record
Scoring ==
    IF arg = <<>> THEN {}
    ELSE {i \in 1..Len(kg_data) : ContractScore(arg, kg_data[i]) > 0}

\* the positions of the records of the result
Returned == {StoreIndex(ret[k].item) : k \in 1..Len(ret)}

\* C22: search_knowledge cuts after ranking: whenever more than 5 records
\* score for the query, 5 are returned and no record left out scores more
\* than a returned record.
C22_CutAfterRanking ==
    (Searched /\ Cardinality(Scoring) > 5) =>
        /\ Len(ret) = 5
        /\ \A i \in Scoring \ Returned :
               \A k \in 1..Len(ret) :
                   ContractScore(arg, kg_data[i]) <= ret[k].relevance_score

\* a scoring record is left out although it comes before a returned record
\* in the store, and the returned records do not all score the same
C22_Witness ==
    /\ Searched
    /\ Cardinality(Scoring) > 5
    /\ \E i \in Scoring \ Returned : \E r \in Returned : i < r
    /\ ret[1].relevance_score > ret[5].relevance_score

\* C23: records of equal relevance_score appear in the result in their store
\* order, and of the records tied at the score of the last returned record
\* the earliest in the store are the ones kept.
C23_TiesInStoreOrder ==
    Searched =>
        /\ \A k, m \in 1..Len(ret) :
               (k < m /\ ret[k].relevance_score = ret[m].relevance_score)
                   => StoreIndex(ret[k].item) < StoreIndex(ret[m].item)
        /\ \A i \in Scoring \ Returned :
               \A k \in 1..Len(ret) :
                   ContractScore(arg, kg_data[i]) = ret[k].relevance_score
                       => StoreIndex(ret[k].item) < i

\* two returned records tie, and a record tied with the last returned record
\* is left out
C23_Witness ==
    /\ Searched
    /\ \E k, m \in 1..Len(ret) :
           k < m /\ ret[k].relevance_score = ret[m].relevance_score
    /\ \E i \in Scoring \ Returned :
           ContractScore(arg, kg_data[i]) = ret[Len(ret)].relevance_score

(***************************************************************************)
(* Claims about the permissive match and about get_entity_details          *)
(***************************************************************************)
\* C24: _entity_matches is true for every record when the query entity is
\* the empty string, and true for every query entity when the record's
\* entity name is empty or missing; so query_knowledge_base([""]) on a
\* non-empty store returns the context of all records.
C24_EmptyTextMatchesAll ==
    /\ (Matched /\ arg.entity = <<>>) => ret = TRUE
    /\ (Matched /\ ("entity" \notin DOMAIN arg.kg_item))  => ret = TRUE
    /\ (Matched /\ "entity" \in DOMAIN arg.kg_item /\ arg.kg_item.entity = <<>>)
           => ret = TRUE
    /\ (Queried /\ arg = << <<>> >> /\ kg_data # <<>>) =>
           /\ ret.hits = [i \in 1..Len(kg_data) |-> i]
           /\ ret.value = Str(JoinSp([i \in 1..Len(kg_data) |-> ContractText(kg_data[i])]))

\* a non-empty query entity that shares no text with the record matches a
\* record that has no entity name
C24_Witness ==
    /\ Matched
    /\ arg.entity = <<"z", "z">>
    /\ "entity" \notin DOMAIN arg.kg_item
    /\ ret = TRUE

\* the match rule of _entity_matches, on a name and a record
RuleMatches(name, item) ==
    LET q == Lower(name)
        r == Lower(Get(item, "entity", <<>>))
    IN  DirectMatch(q, r) \/ AliasMatch(q, item) \/ TokenMatch(q, r)

\* the positions of the records the name of the call matches
DetailMatches == {i \in 1..Len(kg_data) : RuleMatches(arg, kg_data[i])}

\* C25: get_entity_details returns the first record in store order that
\* _entity_matches accepts for the name; it returns None when the name is
\* empty, the store is empty or no record matches; a returned record is
\* always one that _entity_matches accepts.
C25_FirstMatchOrNone ==
    op = "get_entity_details" =>
        /\ (arg = <<>> \/ kg_data = <<>> \/ DetailMatches = {}) => ret = None
        /\ (arg # <<>> /\ DetailMatches # {}) =>
               /\ ret = kg_data[Min(DetailMatches)]
               /\ \A i \in 1..(Min(DetailMatches) - 1) : ~RuleMatches(arg, kg_data[i])
        /\ ret # None => RuleMatches(arg, ret)

\* the name matches two records, neither the first of the store, and the
\* earlier of the two is returned
C25_Witness ==
    /\ op = "get_entity_details"
    /\ arg # <<>>
    /\ Cardinality(DetailMatches) >= 2
    /\ Min(DetailMatches) > 1
    /\ ret = kg_data[Min(DetailMatches)]

(***************************************************************************)
(* Claims about NLPCore                                                    *)
(***************************************************************************)
\* C21: generate_response returns a string for every question and raises
\* nothing; with no model configured it returns the fixed not-configured
\* message and does not call the model, and when the model call fails it
\* returns the fixed apology string.
C21_GenerateAlwaysAString ==
    nlp.pc = "returned" =>
        /\ nlp.propagated = ""
        /\ nlp.result.kind = "str"
        /\ nlp.gen = "unconfigured" =>
               (nlp.result.val = NotConfigured /\ ~nlp.model_called)
        /\ nlp.gen = "raises" =>
               (nlp.result.val = Apology /\ nlp.model_called)

\* a call with no model configured has returned the not-configured message
C21_Witness ==
    /\ nlp.pc = "returned"
    /\ nlp.gen = "unconfigured"
    /\ nlp.result = [kind |-> "str", val |-> NotConfigured]

(***************************************************************************)
(* Claims about the conversation history of the pipeline                   *)
(***************************************************************************)
\* C26: conversation_history is append-only: its length is always the number
\* of process_text_message calls that completed without reaching the
\* exception handler, such a call adds exactly one entry at the end, and no
\* step of any pipeline operation removes, reorders or rewrites an earlier
\* entry
C26_HistoryAppendOnly ==
    /\ [](Len(conversation_history) = completed)
    /\ [][/\ SubSeq(conversation_history', 1, Len(conversation_history))
                = conversation_history
          /\ Len(conversation_history') =
                 Len(conversation_history)
                 + (IF completed' = completed + 1 THEN 1 ELSE 0)
          /\ pipe'.pc = "read" =>
                 conversation_history' = conversation_history]_vars

\* two calls have been recorded, in the order they were made, and a reading
\* operation has returned after them
C26_Witness ==
    /\ Len(conversation_history) = 2
    /\ completed = 2
    /\ conversation_history[1].user # conversation_history[2].user
    /\ pipe.pc = "read"
    /\ pipe.call = "get_conversation_summary"

(***************************************************************************)
(* Claims about get_session_insights                                       *)
(***************************************************************************)
\* C27: a call of get_session_insights nests a bounded number of calls:
\* computing 'learning_recommendations' never drives the nesting to the
\* limit of the interpreter's stack, and no RecursionError is raised
C27_NestingStaysBelowTheStackLimit ==
    /\ insights.depth < RecursionLimit
    /\ ~insights.exhausted

(***************************************************************************)
(* Claims about /api/chat                                                  *)
(***************************************************************************)
\* the requests answered with status 200
Succeeded == {r \in RequestIds : web.requests[r].status = 200}

\* C28: under any interleaving of /api/chat requests the conversation_id of
\* each successful response is the 1-based position of the request's own
\* entry in conversation_history, so no two successful responses carry the
\* same conversation_id
C28_ConversationIdIsOwnPosition ==
    /\ \A r \in Succeeded :
           web.requests[r].conversation_id = web.requests[r].position
    /\ \A r1, r2 \in Succeeded :
           r1 # r2 =>
               web.requests[r1].conversation_id
                   # web.requests[r2].conversation_id

(***************************************************************************)
(* Claims about the VoiceInterface                                         *)
(***************************************************************************)
\* C29: under any interleaving of start_recording and stop_recording calls at
\* most one recording thread is alive at any time, and when stop_recording
\* returns normally the recording thread has ended and is_recording is false
C29_AtMostOneRecordingThread ==
    /\ Cardinality(Alive) <= 1
    /\ \A c \in VoiceCallers :
           (voice.callers[c].last.call = "stop"
            /\ voice.callers[c].last.raised = "") =>
               /\ ~voice.callers[c].last.is_recording
               /\ voice.callers[c].last.alive = {}

(***************************************************************************)
(* Claims about StudentAnalytics                                           *)
(***************************************************************************)
\* the tracking calls whose user_message has a length
RecordedCalls ==
    SelectSeq(analytics.calls, LAMBDA call : HasLen(call.user_message))

\* the entry is the one the call built
EntryOfCall(entry, call) ==
    /\ entry.timestamp = call.timestamp
    /\ entry.session_id = call.session_id
    /\ entry.user_message = call.user_message

\* the session ids under which recorded calls are filed
FiledSessions ==
    {RecordedCalls[i].session_id : i \in 1..Len(RecordedCalls)}
    \cap {sid \in SessionIds : TruthySession(sid) /\ Hashable(sid)}

RECURSIVE SessionTotal(_)
\* the sum of the lengths of the per-session lists of the sessions in ids
SessionTotal(ids) ==
    IF ids = {} THEN 0
    ELSE LET sid == CHOOSE x \in ids : TRUE
         IN  Len(analytics.sessions[sid].interactions)
             + SessionTotal(ids \ {sid})

\* what the sessions and their lists are, given the global list
SessionsFiledInCallOrder ==
    /\ DOMAIN analytics.sessions = FiledSessions
    /\ \A sid \in DOMAIN analytics.sessions :
           analytics.sessions[sid].interactions =
               SelectSeq(analytics.interactions,
                         LAMBDA entry : entry.session_id = sid)
    /\ SessionTotal(DOMAIN analytics.sessions) <= Len(analytics.interactions)

\* a step of get_session_analytics or get_general_analytics changes neither
\* structure
GettersChangeNothing ==
    [][(analytics'.returned.op \in {"get_session_analytics",
                                    "get_general_analytics"}) =>
          /\ analytics'.sessions = analytics.sessions
          /\ analytics'.interactions = analytics.interactions]_vars

\* C30 as stated: the global list has one entry per tracking call, each
\* session's list holds exactly the interactions tracked with that non-empty
\* session_id in call order, and the per-session counts sum to at most the
\* total
C30_OneEntryPerCall ==
    /\ Len(analytics.interactions) = Len(analytics.calls)
    /\ \A i \in 1..Len(analytics.interactions) :
           EntryOfCall(analytics.interactions[i], analytics.calls[i])
    /\ SessionsFiledInCallOrder

\* C30 (amended): the global list has one entry per tracking call whose
\* user_message has a length, in call order (a call whose message has none
\* raises TypeError and records nothing); each session's list holds exactly
\* the recorded interactions with that truthy, hashable session_id in call
\* order; the per-session counts sum to at most the total; the two getters
\* change neither structure
C30_OneEntryPerRecordedCall ==
    /\ [](/\ Len(analytics.interactions) = Len(RecordedCalls)
          /\ \A i \in 1..Len(analytics.interactions) :
                 EntryOfCall(analytics.interactions[i], RecordedCalls[i])
          /\ SessionsFiledInCallOrder)
    /\ GettersChangeNothing

\* three calls were made: one without a session, two under the same session,
\* and a getter has returned the session's figures
C30_Witness ==
    /\ Len(analytics.interactions) = 3
    /\ Str(<<"s">>) \in DOMAIN analytics.sessions
    /\ Len(analytics.sessions[Str(<<"s">>)].interactions) = 2
    /\ analytics.interactions[1].session_id = None
    /\ analytics.returned.op = "get_session_analytics"
    /\ analytics.returned.raised = ""
    /\ "total_interactions" \in DOMAIN analytics.returned.value

====
